---------------------------- MODULE Spec2Model ----------------------------
(***************************************************************************)
(* A model of the log parser and of the statistics layer of tdsanalizer.   *)
(*                                                                         *)
(* Text is modelled as TLA+ strings; a character is a string of length 1.  *)
(* A regular expression is modelled by the match that Python's             *)
(* backtracking engine finds: alternatives in the order written, greedy    *)
(* repetition, the first match from the left.  A float is modelled as an   *)
(* integer number of 10^-MaxFracDigits units (decimal arithmetic is exact  *)
(* in the model).                                                          *)
(***************************************************************************)
EXTENDS Integers, Sequences, FiniteSets, TLC

VARIABLES
    field_patterns,     \* AdvancedLogParser.field_patterns['universal_field']
    record,             \* what _parse_single_line returned to its caller
    raw_parsing_data,   \* the frame returned by parse_log_file: its rows
    ltf_data,           \* columns of the LTF frame of get_ltf_htf_separation
    htf_data,           \* columns of the HTF frame of get_ltf_htf_separation
    parser_pc           \* "new" | "line" | "parsed" | "raised" | "separated"

parser_vars ==
    <<field_patterns, record, raw_parsing_data, ltf_data, htf_data, parser_pc>>

VARIABLES
    parsed_data,        \* HonestDataDrivenAnalyzer.parsed_data
    features,           \* .features
    events,             \* .events
    threshold_analysis, \* .threshold_analysis
    field_correlations, \* .field_correlations
    field_roc_scores,   \* .field_roc_scores
    real_temporal_lags, \* .real_temporal_lags
    veto_fields,        \* .veto_fields
    scoring_system,     \* .scoring_system
    validation_results, \* .validation_results: whether it is set
    analysis_steps,     \* the steps run_full_analysis has called
    analysis_result,    \* what run_full_analysis returned
    analyzer_pc         \* the last step of run_full_analysis that returned
                        \* True, "error" after one that returned False

analyzer_vars ==
    <<parsed_data, features, events, threshold_analysis, field_correlations,
      field_roc_scores, real_temporal_lags, veto_fields, scoring_system,
      validation_results, analysis_steps, analysis_result, analyzer_pc>>

VARIABLES
    detector_data,      \* AdvancedEventDetector.data: the frame with the
                        \* columns _detect_retracements writes
    detector_extrema,   \* .extrema
    detector_pc         \* "new" | "detected"

detector_vars == <<detector_data, detector_extrema, detector_pc>>

VARIABLES
    integration_patterns,    \* ParserIntegration.advanced_parser
                             \* .field_patterns['universal_field']
    parsing_results,         \* .parsing_results, as far as 'full_data'
    special_values_detected, \* .special_values_detected
    integration_features,    \* the columns of the frame that
                             \* get_features_for_main_system returned
    integration_pc           \* "new" | "replaced" | "empty" | "raised" |
                             \* "features"

integration_vars ==
    <<integration_patterns, parsing_results, special_values_detected,
      integration_features, integration_pc>>

VARIABLES
    scalp,              \* ScalpAnalyzer: what analyze_log has run, and df,
                        \* events and pattern_stats after it
    scalp_pc            \* "new" | "returned" | "raised"

scalp_vars == <<scalp, scalp_pc>>

VARIABLES
    is_ready,           \* ScoringAPI.is_ready
    scoring_thresholds, \* .thresholds
    scoring_weights,    \* .field_weights
    recent_scores,      \* RealTimeScoringAPI.recent_scores
    scoring_returned,   \* what the latest call of the API returned
    scoring_line,       \* the line the latest call was given
    realtime_results,   \* the results process_realtime_line has returned,
                        \* in their order
    scoring_clock,      \* datetime.now(), counted in calls of it
    scoring_pc          \* the method called latest, "new" before any

scoring_vars ==
    <<is_ready, scoring_thresholds, scoring_weights, recent_scores,
      scoring_returned, scoring_line, realtime_results, scoring_clock,
      scoring_pc>>

VARIABLES
    cleaner_input,      \* the lines of the file clean_log_data was given
    cleaner_output,     \* the lines of the file it wrote
    cleaner_stats,      \* stats
    cleaner_pc          \* "new" | "cleaned"

cleaner_vars == <<cleaner_input, cleaner_output, cleaner_stats, cleaner_pc>>

vars ==
    <<parser_vars, analyzer_vars, detector_vars, integration_vars, scalp_vars,
      scoring_vars, cleaner_vars>>

\* the variables of the other objects
beside_parser == <<analyzer_vars, detector_vars, integration_vars, scalp_vars,
      scoring_vars, cleaner_vars>>
beside_analyzer == <<parser_vars, detector_vars, integration_vars, scalp_vars,
      scoring_vars, cleaner_vars>>
beside_detector == <<parser_vars, analyzer_vars, integration_vars, scalp_vars,
      scoring_vars, cleaner_vars>>
beside_integration == <<parser_vars, analyzer_vars, detector_vars, scalp_vars,
      scoring_vars, cleaner_vars>>
beside_scalp ==
    <<parser_vars, analyzer_vars, detector_vars, integration_vars, scoring_vars,
      cleaner_vars>>
beside_scoring ==
    <<parser_vars, analyzer_vars, detector_vars, integration_vars, scalp_vars,
      cleaner_vars>>
beside_cleaner ==
    <<parser_vars, analyzer_vars, detector_vars, integration_vars, scalp_vars,
      scoring_vars>>

---------------------------------------------------------------------------
(* Bounds of the model.                                                    *)

\* lines of a log file
MaxLines == 2
\* decimals a float keeps
MaxFracDigits == 2
\* rows of a frame the analyzer is given
MaxRows == 47
\* steps of a price path
MaxSteps == 5
\* rows after the peak of a frame the event detector is given
MaxBars == 3
\* candles of a log the scalp analyzer is given
ScalpRows == 16
\* calls of datetime.now() in a run of the scoring API
MaxCalls == 2
\* lines of a followed log before the line that repeats
MaxVaried == 4

\* the lines of a watched log
MaxWatched == 6
---------------------------------------------------------------------------
(* Characters and small helpers.                                           *)

Digits == {"0", "1", "2", "3", "4", "5", "6", "7", "8", "9"}

Letters ==
    {"a", "b", "c", "d", "e", "f", "g", "h", "i", "j", "k", "l", "m",
     "n", "o", "p", "q", "r", "s", "t", "u", "v", "w", "x", "y", "z",
     "A", "B", "C", "D", "E", "F", "G", "H", "I", "J", "K", "L", "M",
     "N", "O", "P", "Q", "R", "S", "T", "U", "V", "W", "X", "Y", "Z"}

\* \w of Python's re
WordChars == Letters \cup Digits \cup {"_"}

\* \s of Python's re, as far as the lines of the model hold it
SpaceChars == {" "}

\* a local binding: Body with v for its parameter
Let(v, Body(_)) == Body(v)

\* a local binding whose value v is computed once, before the body
With(v, Body(_)) == IF v = v THEN Body(v) ELSE Body(v)

\* the character of s at position i, "" past either end
At(s, i) == IF i >= 1 /\ i <= Len(s) THEN SubSeq(s, i, i) ELSE ""

\* s[i:] of Python, 1-based
From(s, i) == SubSeq(s, i, Len(s))

\* whether lit is written in s at position i
IsLit(s, i, lit) ==
    /\ i >= 1
    /\ i + Len(lit) - 1 <= Len(s)
    /\ SubSeq(s, i, i + Len(lit) - 1) = lit

\* the length of the longest run of characters of class C in s from i
Run(s, i, C) ==
    (CHOOSE j \in i..(Len(s) + 1) :
        /\ At(s, j) \notin C
        /\ \A k \in i..(j - 1) : At(s, k) \in C) - i

\* the length of the longest run of characters outside C in s from i
RunNot(s, i, C) ==
    (CHOOSE j \in i..(Len(s) + 1) :
        /\ (j > Len(s) \/ At(s, j) \in C)
        /\ \A k \in i..(j - 1) : At(s, k) \notin C) - i

\* Python's `lit in s`
Contains(s, lit) == \E i \in 1..Len(s) : IsLit(s, i, lit)

\* Python's s.endswith(suffix)
EndsWith(s, suffix) ==
    /\ Len(suffix) <= Len(s)
    /\ SubSeq(s, Len(s) - Len(suffix) + 1, Len(s)) = suffix

\* Python's s.startswith(prefix)
StartsWith(s, prefix) == IsLit(s, 1, prefix)

\* Python's s.replace(c, '') for a character c
RECURSIVE Remove(_, _)
Remove(s, c) ==
    IF Len(s) = 0 THEN ""
    ELSE (IF At(s, 1) = c THEN "" ELSE At(s, 1)) \o Remove(From(s, 2), c)

\* [0-9.] of the metadata patterns
NumChars == Digits \cup {"."}

\* Python's str.isdigit for the characters of the model
IsDigit(s) == Len(s) > 0 /\ Run(s, 1, Digits) = Len(s)

RECURSIVE Pow10(_)
Pow10(n) == IF n = 0 THEN 1 ELSE 10 * Pow10(n - 1)

DigitVal(c) ==
    CASE c = "0" -> 0 [] c = "1" -> 1 [] c = "2" -> 2 [] c = "3" -> 3
      [] c = "4" -> 4 [] c = "5" -> 5 [] c = "6" -> 6 [] c = "7" -> 7
      [] c = "8" -> 8 [] c = "9" -> 9

\* the number a string of digits writes ("" writes 0)
RECURSIVE DigitsVal(_)
DigitsVal(s) ==
    IF Len(s) = 0 THEN 0
    ELSE 10 * DigitsVal(SubSeq(s, 1, Len(s) - 1)) + DigitVal(At(s, Len(s)))

(***************************************************************************)
(* Values of a record: a float (n, in 10^-MaxFracDigits units), an int (n) *)
(* or a str (s).                                                           *)
(***************************************************************************)
FloatV(n) == [t |-> "float", n |-> n, s |-> ""]
IntV(n) == [t |-> "int", n |-> n, s |-> ""]
StrV(s) == [t |-> "str", n |-> 0, s |-> s]

\* Python's float(s) on the texts the patterns can capture: an optional
\* minus sign, digits, at most one point; anything else raises ValueError.
\* Decimals past MaxFracDigits are cut.
float(s) ==
    Let(At(s, 1) = "-", LAMBDA neg :
    Let(IF neg THEN From(s, 2) ELSE s, LAMBDA body :
    Let(Run(body, 1, Digits), LAMBDA d :
    Let(At(body, d + 1) = ".", LAMBDA point :
    Let(IF point THEN Run(body, d + 2, Digits) ELSE 0, LAMBDA f :
    Let(d + (IF point THEN 1 + f ELSE 0) = Len(body) /\ d + f > 0, LAMBDA ok :
    Let(IF f > MaxFracDigits THEN MaxFracDigits ELSE f, LAMBDA kept :
    Let(DigitsVal(SubSeq(body, 1, d)) * Pow10(MaxFracDigits)
        + DigitsVal(SubSeq(body, d + 2, d + 1 + kept))
          * Pow10(MaxFracDigits - kept), LAMBDA mag :
        [ok |-> ok, v |-> IF ~ok THEN 0 ELSE IF neg THEN 0 - mag ELSE mag]
    ))))))))

\* dict[k] = v
Put(d, k, v) == [x \in (DOMAIN d) \cup {k} |-> IF x = k THEN v ELSE d[x]]

\* dict.update(e)
Update(d, e) ==
    [x \in (DOMAIN d) \cup (DOMAIN e) |-> IF x \in DOMAIN e THEN e[x] ELSE d[x]]

EmptyDict == [x \in {} |-> 0]

---------------------------------------------------------------------------
(* AdvancedLogParser: the patterns.                                        *)

ltf_field_prefixes ==
    {"rd", "md", "cd", "cmd", "macd", "cvd", "dd", "ed", "sd",
     "ro", "mo", "co", "cz", "do", "so", "rz", "mz", "ciz", "sz",
     "dz", "cvz", "maz", "ef", "vc", "ze", "nw", "as", "vw"}

htf_field_prefixes ==
    {"rd", "md", "cd", "cmd", "macd", "od", "dd", "cvd", "drd", "ad",
     "ed", "hd", "sd", "ro", "mo", "co", "cz", "do", "ae", "so",
     "rz", "mz", "ciz", "sz", "dz", "ef", "wv", "vc", "ze", "nw",
     "cvz", "maz", "oz"}

special_htf_fields == {"bs", "wa", "pd"}

\* a variant of ltf_suffixes that takes one more number for a timeframe
ltf_suffixes_with_3 == {"2", "3", "5", "15", "30"}

ltf_suffixes == {"2", "5", "15", "30"}
htf_suffixes == {"1h", "4h", "1d", "1w"}

\* \d+(?:\.\d+)? at j: the length it matches, 0 when it does not match
DecimalLen(s, j) ==
    Let(Run(s, j, Digits), LAMBDA d :
    Let(IF At(s, j + d) = "." THEN Run(s, j + d + 1, Digits) ELSE 0, LAMBDA f :
        IF d = 0 THEN 0 ELSE d + (IF f > 0 THEN 1 + f ELSE 0)))

\* \d+(?:\.\d+)?(?:%)? at j
NumberLen(s, j) ==
    Let(DecimalLen(s, j), LAMBDA a :
        IF a = 0 THEN 0 ELSE a + (IF At(s, j + a) = "%" THEN 1 ELSE 0))

\* the third group of the pattern of _create_field_patterns,
\* ([!-]+|\-?\d+(?:\.\d+)?(?:%)?), at j
OriginalValueLen(s, j) ==
    Let(Run(s, j, {"!", "-"}), LAMBDA r :
    Let(NumberLen(s, IF At(s, j) = "-" THEN j + 1 ELSE j), LAMBDA n :
        IF r > 0 THEN r
        ELSE IF At(s, j) = "-" THEN (IF n > 0 THEN 1 + n ELSE 0)
        ELSE n))

\* the third group of a pattern without the alternative of the minus signs,
\* (!+|\d+(?:\.\d+)?(?:%)?), at j
PatchedValueLenUnsigned(s, j) ==
    Let(Run(s, j, {"!"}), LAMBDA e :
        IF e > 0 THEN e ELSE NumberLen(s, j))

\* the third group of the pattern of _patch_advanced_parser,
\* (-{1,2}\d+(?:\.\d+)?(?:%)?|!+|\d+(?:\.\d+)?(?:%)?), at j
PatchedValueLen(s, j) ==
    Let(Run(s, j, {"-"}), LAMBDA h :
    Let([k \in 0..2 |-> NumberLen(s, j + k)], LAMBDA n :
    Let(Run(s, j, {"!"}), LAMBDA e :
        IF h >= 2 /\ n[2] > 0 THEN 2 + n[2]
        ELSE IF h >= 1 /\ n[1] > 0 THEN 1 + n[1]
        ELSE IF e > 0 THEN e
        ELSE n[0])))

ValueLen(pattern, s, j) ==
    IF pattern = "patched" THEN PatchedValueLen(s, j) ELSE OriginalValueLen(s, j)

\* the least element of a non-empty set of numbers
Least(S) == CHOOSE k \in S : \A j \in S : k <= j
Greatest(S) == CHOOSE k \in S : \A j \in S : k >= j

\* (\d+|1h|4h|1d|1w)-<value> at q: the length of the second group in the
\* first way the engine finds, 0 when there is none.  The engine tries \d+
\* from its longest run down, then the four literals.
SuffixLen(pattern, s, q) ==
    Let(Run(s, q, Digits), LAMBDA D :
    Let([k \in 1..D |-> D - k + 1]
        \o (IF \E h \in htf_suffixes : IsLit(s, q, h) THEN <<2>> ELSE <<>>),
        LAMBDA cands :
    Let({k \in DOMAIN cands :
            /\ At(s, q + cands[k]) = "-"
            /\ ValueLen(pattern, s, q + cands[k] + 1) > 0}, LAMBDA good :
        IF good = {} THEN 0 ELSE cands[Least(good)])))

\* One attempt of a pattern at position i of s:
\* [ok, g (the groups), next (the position after the match)].
NoMatch == [ok |-> FALSE, g |-> <<>>, next |-> 0]

\* universal_field: ([a-zA-Z]+)(\d+|1h|4h|1d|1w)-(<value>)
MatchUniversal(pattern, s, i) ==
    Let([L \in 1..Run(s, i, Letters) |-> SuffixLen(pattern, s, i + L)],
        LAMBDA suffix :
    Let({L \in DOMAIN suffix : suffix[L] > 0}, LAMBDA good :
        IF good = {} THEN NoMatch
        ELSE Let(Greatest(good), LAMBDA L :
             Let(suffix[L], LAMBDA S :
             Let(ValueLen(pattern, s, i + L + S + 1), LAMBDA V :
                 [ok |-> TRUE,
                  g |-> <<SubSeq(s, i, i + L - 1),
                          SubSeq(s, i + L, i + L + S - 1),
                          SubSeq(s, i + L + S + 1, i + L + S + V)>>,
                  next |-> i + L + S + 1 + V])))))

\* \b at i: exactly one of the characters around it is a word character
WordBoundary(s, i) == (At(s, i - 1) \in WordChars) # (At(s, i) \in WordChars)

\* special_htf: \b(bs|wa|pd)\b(?:\s+([^\s,|]+))?
MatchSpecial(s, i) ==
    IF ~(/\ WordBoundary(s, i)
         /\ \E w \in special_htf_fields : IsLit(s, i, w)
         /\ WordBoundary(s, i + 2))
    THEN NoMatch
    ELSE Let(Run(s, i + 2, SpaceChars), LAMBDA r :
         Let(RunNot(s, i + 2 + r, SpaceChars \cup {",", "|"}), LAMBDA v :
             IF r > 0 /\ v > 0
             THEN [ok |-> TRUE,
                   g |-> <<SubSeq(s, i, i + 1),
                           SubSeq(s, i + 2 + r, i + 1 + r + v)>>,
                   next |-> i + 2 + r + v]
             ELSE [ok |-> TRUE, g |-> <<SubSeq(s, i, i + 1), "">>,
                   next |-> i + 2]))

\* -(-?\d+(?:\.\d+)?) at q, the tail of both progress patterns
ProgressValueLen(s, q) ==
    Let(DecimalLen(s, IF At(s, q + 1) = "-" THEN q + 2 ELSE q + 1), LAMBDA n :
        IF At(s, q) # "-" THEN 0
        ELSE IF At(s, q + 1) = "-" THEN (IF n > 0 THEN 1 + n ELSE 0)
        ELSE n)

\* progress_ltf: p(\d+)-(-?\d+(?:\.\d+)?)
MatchProgressLtf(s, i) ==
    Let(Run(s, i + 1, Digits), LAMBDA D :
    Let(ProgressValueLen(s, i + 1 + D), LAMBDA V :
        IF At(s, i) = "p" /\ D > 0 /\ V > 0
        THEN [ok |-> TRUE,
              g |-> <<SubSeq(s, i + 1, i + D),
                      SubSeq(s, i + D + 2, i + D + 1 + V)>>,
              next |-> i + D + 2 + V]
        ELSE NoMatch))

\* progress_htf: p(1h|4h|1d|1w)-(-?\d+(?:\.\d+)?)
MatchProgressHtf(s, i) ==
    Let(ProgressValueLen(s, i + 3), LAMBDA V :
        IF At(s, i) = "p" /\ (\E h \in htf_suffixes : IsLit(s, i + 1, h)) /\ V > 0
        THEN [ok |-> TRUE,
              g |-> <<SubSeq(s, i + 1, i + 2), SubSeq(s, i + 4, i + 3 + V)>>,
              next |-> i + 4 + V]
        ELSE NoMatch)

MatchAt(kind, s, i) ==
    CASE kind = "special_htf" -> MatchSpecial(s, i)
      [] kind = "progress_ltf" -> MatchProgressLtf(s, i)
      [] kind = "progress_htf" -> MatchProgressHtf(s, i)
      [] OTHER -> MatchUniversal(kind, s, i)

\* re.findall(pattern, s): the groups of the matches, from the left, each
\* search starting where the match before ended
RECURSIVE FindAllFrom(_, _, _)
FindAllFrom(kind, s, i) ==
    Let([j \in i..Len(s) |-> MatchAt(kind, s, j)], LAMBDA m :
    Let({j \in DOMAIN m : m[j].ok}, LAMBDA at :
        IF at = {} THEN <<>>
        ELSE Let(Least(at), LAMBDA j :
                 <<m[j].g>> \o FindAllFrom(kind, s, m[j].next))))

findall(kind, s) == FindAllFrom(kind, s, 1)

---------------------------------------------------------------------------
(* AdvancedLogParser: one line.                                            *)

\* a variant of SignalField that counts the characters after the first
SignalFieldCountedFromSecond(fields, field_name, value) ==
    Put(Put(fields, field_name, IntV(Len(value) - 1)),
        field_name \o "_signal", StrV(value))

\* the nw signals (!!!, !!): the number of characters, and the signal itself
SignalField(fields, field_name, value) ==
    Put(Put(fields, field_name, IntV(Len(value))),
        field_name \o "_signal", StrV(value))

\* the body of the loop over universal_matches
UniversalField(fields, m) ==
    LET prefix == m[1]
        suffix == m[2]
        value == m[3]
        field_name == prefix \o suffix
        is_ltf == suffix \in ltf_suffixes
        is_htf == suffix \in htf_suffixes
        valid_ltf == is_ltf /\ prefix \in ltf_field_prefixes
        valid_htf == is_htf /\ prefix \in htf_field_prefixes
    IN  IF ~(valid_ltf \/ valid_htf) THEN fields
        ELSE IF prefix = "nw" /\ Contains(value, "!")
             THEN SignalField(fields, field_name, value)
        ELSE IF IsDigit(Remove(Remove(Remove(value, "-"), "."), "%"))
             THEN Let(float(Remove(value, "%")), LAMBDA numeric_value :
                  IF numeric_value.ok
                  THEN Put(Put(fields, field_name, FloatV(numeric_value.v)),
                           field_name \o "_type",
                           StrV(IF is_ltf THEN "LTF" ELSE "HTF"))
                  ELSE Put(fields, field_name, StrV(value)))
        ELSE Put(fields, field_name, StrV(value))

\* the body of the loop over special_matches
SpecialField(fields, m) ==
    IF m[1] \in special_htf_fields
    THEN Put(Put(fields, m[1], IF m[2] # "" THEN StrV(m[2]) ELSE IntV(1)),
             m[1] \o "_type", StrV("HTF_SPECIAL"))
    ELSE fields

\* the body of the loops over p_ltf_matches and p_htf_matches
ProgressField(fields, m, type) ==
    Put(Put(fields, "p" \o m[1], FloatV(float(m[2]).v)),
        "p" \o m[1] \o "_type", StrV(type))

FieldStep(kind, fields, m) ==
    CASE kind = "special_htf" -> SpecialField(fields, m)
      [] kind = "progress_ltf" -> ProgressField(fields, m, "LTF_PROGRESS")
      [] kind = "progress_htf" -> ProgressField(fields, m, "HTF_PROGRESS")
      [] OTHER -> UniversalField(fields, m)

\* a for loop over the matches ms, from the k-th on
RECURSIVE ForEachMatch(_, _, _, _)
ForEachMatch(kind, fields, ms, k) ==
    IF k > Len(ms) THEN fields
    ELSE With(FieldStep(kind, fields, ms[k]), LAMBDA stepped :
             ForEachMatch(kind, stepped, ms, k + 1))

extract_all_indicator_fields(pattern, line) ==
    LET f1 == ForEachMatch(pattern, EmptyDict, findall(pattern, line), 1)
        f2 == ForEachMatch("special_htf", f1, findall("special_htf", line), 1)
        f3 == ForEachMatch("progress_ltf", f2, findall("progress_ltf", line), 1)
    IN  ForEachMatch("progress_htf", f3, findall("progress_htf", line), 1)

\* re.search(pattern, line) for the patterns of _extract_metadata: the
\* groups of the first match from the left, <<>> when there is none

\* \[([^\]]+)\]
SearchTimestamp(line) ==
    Let([i \in 1..Len(line) |->
            IF At(line, i) = "[" THEN RunNot(line, i + 1, {"]"}) ELSE 0], LAMBDA r :
    Let({i \in DOMAIN r : r[i] > 0 /\ At(line, i + 1 + r[i]) = "]"}, LAMBDA at :
        IF at = {} THEN <<>>
        ELSE Let(Least(at), LAMBDA i : <<SubSeq(line, i + 1, i + r[i])>>)))

\* <lit>([0-9.]+) at i: the end of the group, 0 when it does not match
NumGroupEnd(s, i, lit) ==
    Let(Run(s, i + Len(lit), NumChars), LAMBDA a :
        IF i > 0 /\ IsLit(s, i, lit) /\ a > 0 THEN i + Len(lit) + a - 1 ELSE 0)

\* o:([0-9.]+)\|h:([0-9.]+)\|l:([0-9.]+)\|c:([0-9.]+) at i: the ends of the
\* four groups, 0 from the first that does not match
OhlcEnds(s, i) ==
    Let(NumGroupEnd(s, i, "o:"), LAMBDA o :
    Let(NumGroupEnd(s, IF o = 0 THEN 0 ELSE o + 1, "|h:"), LAMBDA h :
    Let(NumGroupEnd(s, IF h = 0 THEN 0 ELSE h + 1, "|l:"), LAMBDA l :
    Let(NumGroupEnd(s, IF l = 0 THEN 0 ELSE l + 1, "|c:"), LAMBDA c :
        <<o, h, l, c>>))))

SearchOhlc(line) ==
    Let([i \in 1..Len(line) |-> OhlcEnds(line, i)], LAMBDA e :
    Let({i \in DOMAIN e : e[i][4] > 0}, LAMBDA at :
        IF at = {} THEN <<>>
        ELSE Let(e[Least(at)], LAMBDA x :
                 <<SubSeq(line, Least(at) + 2, x[1]),
                   SubSeq(line, x[1] + 4, x[2]),
                   SubSeq(line, x[2] + 4, x[3]),
                   SubSeq(line, x[3] + 4, x[4])>>)))

\* \|([0-9.]+)K\|
SearchVolume(line) ==
    Let([i \in 1..Len(line) |-> NumGroupEnd(line, i, "|")], LAMBDA e :
    Let({i \in DOMAIN e : e[i] > 0 /\ IsLit(line, e[i] + 1, "K|")}, LAMBDA at :
        IF at = {} THEN <<>>
        ELSE Let(Least(at), LAMBDA i : <<SubSeq(line, i + 1, e[i])>>)))

\* rng:([0-9.]+)
SearchRange(line) ==
    Let([i \in 1..Len(line) |-> NumGroupEnd(line, i, "rng:")], LAMBDA e :
    Let({i \in DOMAIN e : e[i] > 0}, LAMBDA at :
        IF at = {} THEN <<>>
        ELSE Let(Least(at), LAMBDA i : <<SubSeq(line, i + 4, e[i])>>)))

\* the floats of the groups g, under the names keys
FloatFields(keys, g) ==
    [k \in {keys[j] : j \in 1..Len(g)} |->
        FloatV(float(g[CHOOSE j \in 1..Len(g) : keys[j] = k]).v)]

\* _extract_metadata; raised when a float() of it raises ValueError
extract_metadata(line) ==
    Let(SearchTimestamp(line), LAMBDA ts :
    Let(SearchOhlc(line) \o SearchVolume(line) \o SearchRange(line), LAMBDA nums :
    Let(Update(Update(Update(Update(Update(
          IF ts = <<>> THEN EmptyDict ELSE Put(EmptyDict, "timestamp", StrV(ts[1])),
          FloatFields(<<"open", "high", "low", "close">>, SearchOhlc(line))),
          FloatFields(<<"volume">>, SearchVolume(line))),
          FloatFields(<<"range">>, SearchRange(line))),
          IF Contains(line, "RED") THEN Put(EmptyDict, "candle_color", StrV("RED"))
          ELSE IF Contains(line, "GREEN")
               THEN Put(EmptyDict, "candle_color", StrV("GREEN"))
          ELSE EmptyDict),
          Put(EmptyDict, "candle_type",
              StrV(IF Contains(line, "BIG_BODY") THEN "BIG_BODY"
                   ELSE IF Contains(line, "DOJI") THEN "DOJI"
                   ELSE "NORMAL"))), LAMBDA metadata :
    Let(\E k \in 1..Len(nums) : ~float(nums[k]).ok, LAMBDA raised :
        [raised |-> raised,
         metadata |-> IF raised THEN EmptyDict ELSE metadata]))))

\* _parse_single_line: [kind, record]; kind is "record", "none" (the
\* method returns None) or "raise" (it raises)
parse_single_line(pattern, line, line_num) ==
    IF line = "" \/ StartsWith(line, "#")
    THEN [kind |-> "none", record |-> EmptyDict]
    ELSE Let(extract_metadata(line), LAMBDA md :
             IF md.raised THEN [kind |-> "raise", record |-> EmptyDict]
             ELSE [kind |-> "record",
                   record |->
                     Update(Update(Put(Put(EmptyDict, "line_number", IntV(line_num)),
                                       "raw_line", StrV(line)),
                                   md.metadata),
                            extract_all_indicator_fields(pattern, line))])

\* Python's s.strip() for the blanks of the model
RECURSIVE strip(_)
strip(s) ==
    IF Len(s) > 0 /\ At(s, 1) \in SpaceChars THEN strip(From(s, 2))
    ELSE IF Len(s) > 0 /\ At(s, Len(s)) \in SpaceChars
         THEN strip(SubSeq(s, 1, Len(s) - 1))
    ELSE s

\* the loop of parse_log_file over the lines, from the i-th (0-based) on:
\* the records of the lines that gave one
RECURSIVE ParsedRecords(_, _, _)
ParsedRecords(pattern, lines, i) ==
    IF i >= Len(lines) THEN <<>>
    ELSE Let(parse_single_line(pattern, strip(lines[i + 1]), i), LAMBDA r :
             (IF r.kind = "record" /\ DOMAIN r.record # {}
              THEN <<r.record>> ELSE <<>>)
             \o ParsedRecords(pattern, lines, i + 1))

\* df.columns
Columns(df) == UNION {DOMAIN df[i] : i \in 1..Len(df)}

\* Whether _generate_parsing_statistics raises on the frame df.  It formats
\* with :.2f the min and max of the first three columns that start with nw,
\* with ef, with as and with vc.  The first such column of a group holds a
\* str, or it is numeric and the column after it is its <field>_type or
\* <field>_signal, which holds a str: the format raises on one of them.
generate_parsing_statistics_raises(df) ==
    \E col \in Columns(df) :
      \E group \in {"nw", "ef", "as", "vc"} : StartsWith(col, group)

\* parse_log_file: [raised, df]; df is the rows of the frame (a column a row
\* lacks is NaN there).  _patch_advanced_parser replaces the statistics by
\* _safe_parsing_statistics, which formats no value.
parse_log_file(pattern, lines) ==
    Let(ParsedRecords(pattern, lines, 0), LAMBDA parsed_records :
        IF /\ parsed_records # <<>>
           /\ pattern = "original"
           /\ generate_parsing_statistics_raises(parsed_records)
        THEN [raised |-> TRUE, df |-> <<>>]
        ELSE [raised |-> FALSE, df |-> parsed_records])

\* df[cols]
Project(df, cols) ==
    [i \in 1..Len(df) |-> [c \in (DOMAIN df[i]) \cap cols |-> df[i][c]]]

---------------------------------------------------------------------------
(* AdvancedLogParser.get_ltf_htf_separation.                               *)

common_fields ==
    {"timestamp", "open", "high", "low", "close", "volume", "range",
     "candle_color", "candle_type", "line_number", "raw_line"}

\* df[type_col].dropna().unique(), each as str(t)
FieldTypes(df, type_col) ==
    {df[i][type_col].s : i \in {j \in 1..Len(df) : type_col \in DOMAIN df[j]}}

\* a variant of LtfAppended whose type test is 'TF' in str(t)
LtfAppendedAnyTimeframe(df) ==
    UNION {
        LET type_col == col \o "_type"
        IN  IF EndsWith(col, "_type") THEN {}
            ELSE IF type_col \in Columns(df)
                 THEN IF \E t \in FieldTypes(df, type_col) : Contains(t, "TF")
                      THEN {col, type_col} ELSE {}
            ELSE IF \E suffix \in ltf_suffixes : EndsWith(col, suffix)
                 THEN {col} ELSE {}
        : col \in Columns(df)}

\* the columns the loop over df.columns appends to ltf_columns
LtfAppended(df) ==
    UNION {
        LET type_col == col \o "_type"
        IN  IF EndsWith(col, "_type") THEN {}
            ELSE IF type_col \in Columns(df)
                 THEN IF \E t \in FieldTypes(df, type_col) : Contains(t, "LTF")
                      THEN {col, type_col} ELSE {}
            ELSE IF \E suffix \in ltf_suffixes : EndsWith(col, suffix)
                 THEN {col} ELSE {}
        : col \in Columns(df)}

\* the columns the loop over df.columns appends to htf_columns
HtfAppended(df) ==
    UNION {
        LET type_col == col \o "_type"
        IN  IF EndsWith(col, "_type") THEN {}
            ELSE IF type_col \in Columns(df)
                 THEN IF \E t \in FieldTypes(df, type_col) : Contains(t, "HTF")
                      THEN {col, type_col} ELSE {}
            ELSE IF \E suffix \in ltf_suffixes : EndsWith(col, suffix) THEN {}
            ELSE IF \E suffix \in htf_suffixes : EndsWith(col, suffix)
                 THEN {col} ELSE {}
        : col \in Columns(df)}

\* (ltf_df, htf_df)
get_ltf_htf_separation(df) ==
    LET common == common_fields \cap Columns(df)
    IN  <<Project(df, (common \cup LtfAppended(df)) \cap Columns(df)),
          Project(df, (common \cup HtfAppended(df)) \cap Columns(df))>>

---------------------------------------------------------------------------
(* The log lines the model reads.                                          *)

\* the line of test_parser_quick.py
TestLine ==
    "[2024-08-05T09:24:00.000+03:00]: LTF|event_2025-06-28_22-55|1|2024-08-05 06:24|RED|-1.79%|11.5K|BIG_BODY|66%|-18.8%_24h|o:50254.8|h:50258.6|l:48888|c:49353.4|rng:1370.6|ef2--7.19|as2-3.33|vc2-2.4|nw2-!!|ze2--4.12|co2--213|ro2-11|so2-11"

LogLines ==
    {TestLine,
     "", "# header",
     "ef2--7.19", "as2-3.33", "co1h--213", "ef1d-5%",
     "nw2-!!", "nw4h-!", " nw5-!!! ", "nw2-3|nw2-!!",
     "xx2-3", "ef3-3", "od2-3", "od1h-3.5", "vw1w-3",
     "p3--5.5", "p1h-4", "bs", "GREEN|pd 7,ef2-1",
     "o:1.5|h:2|l:1|c:2|rng:1|DOJI|ef2-3|ef1h-3",
     "o:1|h:2..5|l:1|c:2|ef2-3",
     "ef2---7"}

\* the files of at most MaxLines log lines
RECURSIVE FilesOfLen(_)
FilesOfLen(n) ==
    IF n = 0 THEN {<<>>}
    ELSE {Append(f, l) : f \in FilesOfLen(n - 1), l \in LogLines}

LogFiles == UNION {FilesOfLen(n) : n \in 0..MaxLines}

\* a run of n exclamation marks
RECURSIVE Signal(_)
Signal(n) == IF n = 0 THEN "" ELSE "!" \o Signal(n - 1)

---------------------------------------------------------------------------
(* HonestDataDrivenAnalyzer: numbers.                                      *)
(*                                                                         *)
(* A rate, a quantile, a ROC-AUC or an importance is a fraction            *)
(* [num, den] in lowest terms with den > 0; None is [0, 0].  The floats of *)
(* the code are the roundings of these fractions; the frames the model     *)
(* analyses are chosen so that no comparison of the code is decided by a   *)
(* rounding.                                                               *)

Abs(x) == IF x < 0 THEN 0 - x ELSE x

RECURSIVE GCD(_, _)
GCD(a, b) == IF b = 0 THEN a ELSE GCD(b, a % b)

Rat(n, d) ==
    With(GCD(Abs(n), d), LAMBDA g : [num |-> n \div g, den |-> d \div g])

None == [num |-> 0, den |-> 0]

RatNeg(a) == [num |-> 0 - a.num, den |-> a.den]

RatAdd(a, b) ==
    With(GCD(a.den, b.den), LAMBDA g :
        Rat(a.num * (b.den \div g) + b.num * (a.den \div g),
            (a.den \div g) * b.den))

RatSub(a, b) == RatAdd(a, RatNeg(b))

RatMul(a, b) ==
    With(Rat(a.num, b.den), LAMBDA x :
    With(Rat(b.num, a.den), LAMBDA y :
        [num |-> x.num * y.num, den |-> x.den * y.den]))

\* a / b for b > 0
RatDiv(a, b) == RatMul(a, [num |-> b.den, den |-> b.num])

\* a / b < c / d for a, c >= 0 and b, d > 0, by the whole parts and then the
\* remainders, so that no product leaves the range of the integers
RECURSIVE PosLess(_, _, _, _)
PosLess(a, b, c, d) ==
    IF a \div b # c \div d THEN a \div b < c \div d
    ELSE IF c % d = 0 THEN FALSE
    ELSE IF a % b = 0 THEN TRUE
    ELSE PosLess(d, c % d, b, a % b)

RatLt(a, b) ==
    IF a.num < 0 /\ b.num >= 0 THEN TRUE
    ELSE IF a.num >= 0 /\ b.num < 0 THEN FALSE
    ELSE IF a.num < 0 THEN PosLess(0 - b.num, b.den, 0 - a.num, a.den)
    ELSE PosLess(a.num, a.den, b.num, b.den)

\* Python's int(x): the fraction cut towards zero
int(a) == IF a.num >= 0 THEN a.num \div a.den ELSE 0 - ((0 - a.num) \div a.den)

\* s[1] \o s[2] \o ... for a sequence of sequences, half by half
RECURSIVE Concat(_)
Concat(s) ==
    IF s = <<>> THEN <<>>
    ELSE IF Len(s) = 1 THEN s[1]
    ELSE Concat(SubSeq(s, 1, Len(s) \div 2))
         \o Concat(SubSeq(s, Len(s) \div 2 + 1, Len(s)))

\* whether x is an element of the sequence s
In(x, s) == \E k \in DOMAIN s : s[k] = x

---------------------------------------------------------------------------
(* HonestDataDrivenAnalyzer: frames.                                       *)
(*                                                                         *)
(* A frame is [columns, data]: the names of its columns in their order,    *)
(* and for each name the cells of the column, row by row.  A cell is       *)
(* IntV(n), FloatV(h) with h in 10^-MaxFracDigits units, StrV(s) or NaN.   *)
(* The rows are labelled 1, 2, ... (pandas labels them from 0; the code    *)
(* only uses differences of labels).                                       *)

NaN == [t |-> "nan", n |-> 0, s |-> ""]

Scale == Pow10(MaxFracDigits)

\* the number of a numeric cell, in 10^-MaxFracDigits units
Num(v) == IF v.t = "int" THEN v.n * Scale ELSE v.n

IsNumber(v) == v.t \in {"int", "float"}

NoFrame == [columns |-> <<>>, data |-> EmptyDict]

RowCount(frame) ==
    IF frame.columns = <<>> THEN 0 ELSE Len(frame.data[frame.columns[1]])

\* pd.to_numeric(series, errors='coerce') on the cells of the model, whose
\* texts are no numerals
to_numeric(series) ==
    [i \in DOMAIN series |-> IF IsNumber(series[i]) THEN series[i] ELSE NaN]

\* series.fillna(0)
fillna0(series) ==
    [i \in DOMAIN series |-> IF series[i] = NaN THEN IntV(0) ELSE series[i]]

\* the row labels of series.dropna()
NotNaRows(series) ==
    SelectSeq([i \in DOMAIN series |-> i], LAMBDA i : series[i] # NaN)

\* a series (or a mask) at the rows of a sequence of labels
AtRows(series, rows) == [k \in DOMAIN rows |-> series[rows[k]]]

\* series.dtype in ['int64', 'float64'], for a series without NaN
IsNumeric(series) == \A i \in DOMAIN series : IsNumber(series[i])

\* the numbers of a numeric series
Numbers(series) == [i \in DOMAIN series |-> Num(series[i])]

\* mask.sum(), for a mask of 0 and 1
Sum(mask) == Cardinality({i \in DOMAIN mask : mask[i] = 1})

\* mask.mean(), of a mask with rows
Mean(mask) == Rat(Sum(mask), Len(mask))

\* series.nunique()
nunique(xs) == Cardinality({xs[i] : i \in DOMAIN xs})

\* series.unique(): the values in the order of their first rows
unique(series) ==
    AtRows(series,
           SelectSeq([i \in DOMAIN series |-> i], LAMBDA i :
               \A j \in 1..(i - 1) : series[j] # series[i]))

\* the sum of the fractions of a sequence, half by half
RECURSIVE RatTotal(_)
RatTotal(s) ==
    IF s = <<>> THEN Rat(0, 1)
    ELSE IF Len(s) = 1 THEN s[1]
    ELSE RatAdd(RatTotal(SubSeq(s, 1, Len(s) \div 2)),
                RatTotal(SubSeq(s, Len(s) \div 2 + 1, Len(s))))

\* the sum of the fractions of a sequence: each of its values as often as
\* it stands in the sequence
RatSum(s) ==
    With(unique(s), LAMBDA values :
        RatTotal([k \in DOMAIN values |->
            RatMul(Rat(Cardinality({i \in DOMAIN s : s[i] = values[k]}), 1),
                   values[k])]))

\* the statement frame[name] = series
Assignment(name, series) == [name |-> name, series |-> series]

\* the frame after a sequence of statements frame[name] = series: a new
\* name is a new last column, and the last series of a name is its column
Assigned(frame, assignments) ==
    With([k \in DOMAIN assignments |-> assignments[k].name], LAMBDA names :
        [columns |->
            frame.columns
            \o SelectSeq(unique(names), LAMBDA name : ~In(name, frame.columns)),
         data |->
            [name \in DOMAIN frame.data \cup {names[k] : k \in DOMAIN names} |->
                IF In(name, names)
                THEN assignments[Greatest({k \in DOMAIN names :
                                     names[k] = name})].series
                ELSE frame.data[name]]])

\* series[mask], for a mask over the rows of the series
Select(xs, mask) ==
    AtRows(xs, SelectSeq([i \in DOMAIN xs |-> i], LAMBDA i : mask[i] = 1))

\* ~mask
Not(mask) == [i \in DOMAIN mask |-> 1 - mask[i]]

\* series.quantile(q / 100): pandas interpolates linearly between the two
\* order statistics around position (n - 1) * q / 100
quantile(xs, q) ==
    With(SortSeq(xs, LAMBDA a, b : a < b), LAMBDA sorted :
    With((Len(xs) - 1) * q, LAMBDA pos :
        IF pos % 100 = 0 THEN Rat(sorted[pos \div 100 + 1], 1)
        ELSE Rat(100 * sorted[pos \div 100 + 1]
                 + (sorted[pos \div 100 + 2] - sorted[pos \div 100 + 1]) * (pos % 100),
                 100)))

\* the masks xs > t, xs >= t, xs <= t for a fraction t
Greater(xs, t) == [i \in DOMAIN xs |-> IF xs[i] * t.den > t.num THEN 1 ELSE 0]
GreaterEqual(xs, t) == [i \in DOMAIN xs |-> IF xs[i] * t.den >= t.num THEN 1 ELSE 0]
LessEqual(xs, t) == [i \in DOMAIN xs |-> IF xs[i] * t.den <= t.num THEN 1 ELSE 0]

\* (series > t).astype(int) and the like on a column of a frame: a
\* comparison with NaN is False
CompareColumn(series, Compare(_, _), t) ==
    With(Compare(Numbers(to_numeric(series)), t), LAMBDA mask :
        [i \in DOMAIN series |->
            IntV(IF IsNumber(series[i]) THEN mask[i] ELSE 0)])

---------------------------------------------------------------------------
(* HonestDataDrivenAnalyzer._create_prioritized_features_fallback and      *)
(* _clean_mixed_data_types: create_features without the advanced modules.  *)

indicator_groups ==
    << [name |-> "group_1",
        prefixes |-> <<"rd", "md", "cd", "cmd", "macd", "od", "dd", "cvd",
                       "drd", "ad", "ed", "hd", "sd">>],
       [name |-> "group_2",
        prefixes |-> <<"ro", "mo", "co", "cz", "do", "ae", "so">>],
       [name |-> "group_3",
        prefixes |-> <<"rz", "mz", "ciz", "sz", "dz", "cvz", "maz", "oz">>],
       [name |-> "group_4",
        prefixes |-> <<"ef", "wv", "vc", "ze", "nw", "as", "vw">>],
       [name |-> "group_5",
        prefixes |-> <<"bs", "wa", "pd">>] >>

metadata_fields == <<"open", "high", "low", "close", "volume", "range">>

\* the columns of data that start with one of the prefixes and are no
\* metadata, prefix by prefix
GroupFields(data, prefixes) ==
    Concat([p \in DOMAIN prefixes |->
        SelectSeq(data.columns, LAMBDA col :
            StartsWith(col, prefixes[p]) /\ ~In(col, metadata_fields))])

\* the fields the first loop visits, in its order
IndicatorFields(data) ==
    Concat([g \in DOMAIN indicator_groups |->
        GroupFields(data, indicator_groups[g].prefixes)])

\* the body of the first loop for one field: its statements
IndicatorFeature(data, f) ==
    <<Assignment(f \o "_ind", data.data[f]),
      Assignment(f \o "_ind_active",
                 [i \in DOMAIN data.data[f] |->
                     IntV(IF Num(fillna0(to_numeric(data.data[f]))[i]) # 0
                          THEN 1 ELSE 0)])>>
    \o (IF StartsWith(f, "nw") /\ In(f \o "_signal", data.columns)
        THEN <<Assignment(f \o "_ind_signal", data.data[f \o "_signal"])>>
        ELSE <<>>)

\* the statements of the first loop
IndicatorFeatures(data) ==
    With(IndicatorFields(data), LAMBDA fields :
        Concat([k \in DOMAIN fields |-> IndicatorFeature(data, fields[k])]))

\* the numbers of a row over the columns of a group, NaN and text as 0
GroupRow(data, group_fields, i) ==
    [k \in DOMAIN group_fields |->
        Num(fillna0(to_numeric(data.data[group_fields[k]]))[i])]

\* the sum of a sequence of integers, half by half
RECURSIVE Total(_)
Total(s) ==
    IF s = <<>> THEN 0
    ELSE IF Len(s) = 1 THEN s[1]
    ELSE Total(SubSeq(s, 1, Len(s) \div 2))
         + Total(SubSeq(s, Len(s) \div 2 + 1, Len(s)))

\* the body of the second loop for one group: the statements of the
\* aggregates over the columns of the group; the mean keeps MaxFracDigits
\* decimals
GroupAggregates(data, group) ==
    With(GroupFields(data, group.prefixes), LAMBDA group_fields :
        IF Len(group_fields) < 2 THEN <<>>
        ELSE With([i \in 1..RowCount(data) |-> GroupRow(data, group_fields, i)],
                 LAMBDA rows :
             <<Assignment(group.name \o "_ind_max",
                   [i \in DOMAIN rows |->
                       FloatV(Greatest({rows[i][k] : k \in DOMAIN rows[i]}))]),
               Assignment(group.name \o "_ind_mean",
                   [i \in DOMAIN rows |->
                       FloatV(Total(rows[i]) \div Len(group_fields))]),
               Assignment(group.name \o "_ind_active_count",
                   [i \in DOMAIN rows |->
                       IntV(Cardinality({k \in DOMAIN rows[i] :
                                rows[i][k] # 0}))])>>))

\* the statements of the second loop
AllGroupAggregates(data) ==
    Concat([g \in DOMAIN indicator_groups |->
               GroupAggregates(data, indicator_groups[g])])

\* the statements of the loop over the metadata fields
MetadataFeatures(data) ==
    With(SelectSeq(metadata_fields, LAMBDA field : In(field, data.columns)),
        LAMBDA fields :
        [k \in DOMAIN fields |->
            Assignment("meta_" \o fields[k], data.data[fields[k]])])

\* a - b on two cells, NaN if either is
Minus(a, b) ==
    IF IsNumber(a) /\ IsNumber(b) THEN FloatV(Num(a) - Num(b)) ELSE NaN

\* (close - low) / (high - low + 1e-8) on cells: the 1e-8 decides the
\* quotient only where high = low, and the model has close = low there
ClosePosition(close, high, low) ==
    IF ~(IsNumber(close) /\ IsNumber(high) /\ IsNumber(low)) THEN NaN
    ELSE IF Num(close) = Num(low) THEN FloatV(0)
    ELSE FloatV(((Num(close) - Num(low)) * Scale) \div (Num(high) - Num(low)))

\* meta_price_range and meta_close_position
PriceDerivatives(frame) ==
    IF \A c \in {"meta_open", "meta_high", "meta_low", "meta_close"} :
           In(c, frame.columns)
    THEN Assigned(frame,
             <<Assignment("meta_price_range",
                   [i \in 1..RowCount(frame) |->
                       Minus(frame.data["meta_high"][i], frame.data["meta_low"][i])]),
               Assignment("meta_close_position",
                   [i \in 1..RowCount(frame) |->
                       ClosePosition(frame.data["meta_close"][i],
                                     frame.data["meta_high"][i],
                                     frame.data["meta_low"][i])])>>)
    ELSE frame

\* features.fillna(0, inplace=True)
FillFrame(frame) ==
    [columns |-> frame.columns,
     data |-> [c \in DOMAIN frame.data |-> fillna0(frame.data[c])]]

create_prioritized_features_fallback(data) ==
    FillFrame(PriceDerivatives(
        Assigned(NoFrame,
                 IndicatorFeatures(data) \o AllGroupAggregates(data)
                 \o MetadataFeatures(data))))

\* df[column].astype(str).replace('-', '0') on the texts of the model (a
\* column that reaches this line holds texts only)
AsText(series) ==
    [i \in DOMAIN series |->
        IF series[i] = StrV("-") THEN StrV("0") ELSE series[i]]

\* the column of _clean_mixed_data_types for one column of the frame
CleanColumn(column, series) ==
    IF column \in {"line_number", "timestamp", "raw_line"} THEN series
    ELSE IF NotNaRows(series) = <<>> THEN series
    ELSE IF EndsWith(column, "_signal") \/ EndsWith(column, "_type") THEN series
    ELSE IF \E i \in DOMAIN series : IsNumber(series[i]) THEN to_numeric(series)
    ELSE AsText(series)

clean_mixed_data_types(df) ==
    [columns |-> df.columns,
     data |-> [c \in DOMAIN df.data |-> CleanColumn(c, df.data[c])]]

---------------------------------------------------------------------------
(* HonestDataDrivenAnalyzer.auto_detect_events.                            *)

\* self.config['events']['min_price_change'], in hundredths
min_price_change == 1
\* self.config['events']['lookback_window']
lookback_window == 20
\* self.config['events']['min_event_gap']
min_event_gap == 5
\* the least number of prices
MinPrices == 20

NoEvents == [events_mask |-> <<>>, total_events |-> 0, event_rate |-> None]

\* the column of the close prices, "" when the frame has none
CloseField(frame) ==
    With(SelectSeq(<<"META_close", "meta_close", "close", "IND_close">>,
               LAMBDA c : In(c, frame.columns)), LAMBDA candidates :
        IF candidates # <<>> THEN candidates[1]
        ELSE \* a column with 'close' in its name (the names of the model are
             \* in lower case)
             With(SelectSeq(frame.columns, LAMBDA c : Contains(c, "close")),
                 LAMBDA close_columns :
                 IF close_columns # <<>> THEN close_columns[1] ELSE ""))

\* abs(current_price - first) / first >= min_change, with price_change = 0
\* where first is 0 (and a price_change below 0 where first is)
SignificantMove(current_price, first) ==
    /\ first > 0
    /\ 100 * Abs(current_price - first) >= min_price_change * first

\* 1. whether row i of the prices (from 1) is marked as an extremum
IsExtremum(prices, i) ==
    With({prices[j] : j \in (i - lookback_window)..(i - 1)}, LAMBDA left_window :
    With({prices[j] : j \in i..(i + lookback_window - 1)}, LAMBDA right_window :
        IF prices[i] = Greatest(left_window) /\ prices[i] = Greatest(right_window)
        THEN SignificantMove(prices[i], prices[i - lookback_window])
        ELSE IF prices[i] = Least(left_window) /\ prices[i] = Least(right_window)
        THEN SignificantMove(prices[i], prices[i - lookback_window])
        ELSE FALSE))

\* prices.pct_change() from the second price on (the first return is NaN);
\* the prices of the model are positive
Returns(prices) ==
    [i \in 1..(Len(prices) - 1) |-> Rat(prices[i + 1] - prices[i], prices[i])]

\* 2. the square of volatility_threshold = returns.std() * 2, with
\* std^2 = (sum r^2 - (sum r)^2 / n) / (n - 1)
SquaredVolatilityThreshold(returns) ==
    With(RatSum(returns), LAMBDA s :
    With(RatSum([i \in DOMAIN returns |-> RatMul(returns[i], returns[i])]),
        LAMBDA ss :
        RatMul(Rat(4, Len(returns) - 1),
               RatSub(ss, RatMul(RatMul(s, s), Rat(1, Len(returns)))))))

\* abs(r) > volatility_threshold, both sides squared
IsVolatile(r, squared_threshold) == RatLt(squared_threshold, RatMul(r, r))

\* a variant of Kept that lets events one row closer
KeptOneCloser(event_idx, last) == event_idx - last >= min_event_gap - 1

\* (event_idx - filtered_events[-1]) >= min_gap
Kept(event_idx, last) == event_idx - last >= min_event_gap

\* 3. the loop that drops the events close to the one kept before them
RECURSIVE FilterEvents(_, _, _)
FilterEvents(events_indices, k, filtered_events) ==
    IF k > Len(events_indices) THEN filtered_events
    ELSE IF filtered_events = <<>>
            \/ Kept(events_indices[k], filtered_events[Len(filtered_events)])
    THEN FilterEvents(events_indices, k + 1,
                      Append(filtered_events, events_indices[k]))
    ELSE FilterEvents(events_indices, k + 1, filtered_events)

\* events_mask before the third step; the frames of the model have a close
\* price in every row
RawEvents(prices) ==
    With(Returns(prices), LAMBDA returns :
    With(SquaredVolatilityThreshold(returns), LAMBDA squared_threshold :
        [i \in DOMAIN prices |->
            IF \/ /\ i > lookback_window
                  /\ i <= Len(prices) - lookback_window
                  /\ IsExtremum(prices, i)
               \/ /\ i > 1
                  /\ IsVolatile(returns[i - 1], squared_threshold)
            THEN 1 ELSE 0]))

\* self.events of auto_detect_events, NoEvents where it returns False
auto_detect_events(frame) ==
    With(CloseField(frame), LAMBDA close_field :
        IF close_field = "" THEN NoEvents
        ELSE With(Numbers(AtRows(frame.data[close_field],
                                NotNaRows(frame.data[close_field]))),
                 LAMBDA prices :
             IF Len(prices) < MinPrices THEN NoEvents
             ELSE With(RawEvents(prices), LAMBDA events_mask :
                  With(FilterEvents(SelectSeq([i \in DOMAIN events_mask |-> i],
                                          LAMBDA i : events_mask[i] = 1),
                                   1, <<>>), LAMBDA filtered_events :
                      [events_mask |->
                          [i \in 1..RowCount(frame) |->
                              IF In(i, filtered_events) THEN 1 ELSE 0],
                       total_events |-> Len(filtered_events),
                       event_rate |->
                          Rat(Len(filtered_events), RowCount(frame))]))))

---------------------------------------------------------------------------
(* HonestDataDrivenAnalyzer: the statistics of scikit-learn and SciPy.     *)

\* sklearn's roc_auc_score(y_true, y_score) for a score of 0 and 1, as
\* [raised, roc]: it raises when y_true holds one class only; else the ROC
\* curve has the points (0, 0), (fpr, tpr), (1, 1) and the area under it is
\* summed by trapezoids.
roc_auc_score(y_true, y_score) ==
    With(Sum(y_true), LAMBDA P :
    With(Len(y_true) - P, LAMBDA N :
        IF P = 0 \/ N = 0 THEN [raised |-> TRUE, roc |-> None]
        ELSE With(Rat(Sum([i \in DOMAIN y_true |-> y_true[i] * y_score[i]]), P),
                 LAMBDA tpr :
             With(Rat(Sum([i \in DOMAIN y_true |-> (1 - y_true[i]) * y_score[i]]), N),
                 LAMBDA fpr :
                 [raised |-> FALSE,
                  roc |-> RatAdd(RatMul(RatMul(fpr, tpr), Rat(1, 2)),
                                 RatMul(RatMul(RatSub(Rat(1, 1), fpr),
                                               RatAdd(tpr, Rat(1, 1))),
                                        Rat(1, 2)))]))))

\* pd.crosstab(mask, events).shape == (2, 2)
IsTwoByTwo(mask, outcome) == nunique(mask) = 2 /\ nunique(outcome) = 2

\* the chi-square statistic of scipy's chi2_contingency on the crosstab of
\* mask and events, a 2x2 table: for each cell the expected frequency is
\* row total * column total / n, the observed one is moved towards it by
\* min(0.5, the distance) (the correction of Yates), and the squared
\* distances over the expected frequencies are summed.
chi2_contingency(mask, outcome) ==
    With(Len(mask), LAMBDA n :
        RatSum([cell \in 1..4 |->
            With(Cardinality({i \in DOMAIN mask :
                    mask[i] = (cell - 1) \div 2 /\ outcome[i] = (cell - 1) % 2}),
                LAMBDA observed :
            With(Cardinality({i \in DOMAIN mask : mask[i] = (cell - 1) \div 2})
                * Cardinality({i \in DOMAIN mask : outcome[i] = (cell - 1) % 2}),
                LAMBDA rc :
                \* expected = rc / n, so |observed - expected| = |n * observed - rc| / n
                IF 2 * Abs(n * observed - rc) <= n THEN Rat(0, 1)
                ELSE Rat((2 * Abs(n * observed - rc) - n)
                         * (2 * Abs(n * observed - rc) - n), 4 * n * rc)))]))

\* in thousandths, the value that a chi-square statistic with one degree of
\* freedom exceeds with probability significance_level = 0.05 (3.84146)
chi2_critical_value == 3841

\* a variant of Significant that takes every table
SignificantAtAnyLevel(chi2) == TRUE

\* p_val < self.config['analysis']['significance_level']
Significant(chi2) == RatLt(Rat(chi2_critical_value, 1000), chi2)

---------------------------------------------------------------------------
(* HonestDataDrivenAnalyzer.calculate_real_field_statistics.               *)

\* self.config['analysis']['min_samples']
min_samples == 10

\* the columns a loop over self.features.columns analyses, in their order
AnalysedColumns(frame, least_rows) ==
    SelectSeq(frame.columns, LAMBDA column :
        /\ column \notin {"line_number", "timestamp"}
        /\ Len(NotNaRows(frame.data[column])) >= least_rows)

determine_field_type(column, field_data) ==
    IF Contains(column, "signal") THEN "categorical"
    ELSE IF IsNumeric(field_data) THEN "numeric"
    ELSE "categorical"

\* field_stats: of the entry of a column the model keeps the type, the
\* counts and the activation rate
FieldStatistics(frame) ==
    With(AnalysedColumns(frame, min_samples), LAMBDA columns :
        [column \in {columns[k] : k \in DOMAIN columns} |->
            With(AtRows(frame.data[column], NotNaRows(frame.data[column])),
                LAMBDA field_data :
            With([i \in DOMAIN field_data |->
                    IF IsNumber(field_data[i]) /\ Num(field_data[i]) = 0
                    THEN 0 ELSE 1], LAMBDA non_zero :
                [field_type |-> determine_field_type(column, field_data),
                 total_observations |-> Len(field_data),
                 non_zero_observations |-> Sum(non_zero),
                 activation_rate |-> Mean(non_zero)]))])

---------------------------------------------------------------------------
(* HonestDataDrivenAnalyzer.calculate_real_correlations.                   *)

\* the quantiles of the ROC thresholds, in hundredths
roc_quantiles == <<50, 70, 80, 90, 95>>

\* a variant of Better that also takes a ROC-AUC equal to the best so far
BetterOrEqual(roc, best_roc) == ~RatLt(roc, best_roc)

\* roc > best_roc
Better(roc, best_roc) == RatLt(best_roc, roc)

\* the ROC-AUC of a threshold, as [tried, roc]: the body of the loop over
\* the thresholds reaches its comparison only with two values in the column
\* and in the prediction, and with events of both classes
RocCandidate(xs, events_aligned, threshold) ==
    IF nunique(xs) <= 1 THEN [tried |-> FALSE, roc |-> None]
    ELSE With(Greater(xs, threshold), LAMBDA binary_pred :
             IF nunique(binary_pred) <= 1 THEN [tried |-> FALSE, roc |-> None]
             ELSE With(roc_auc_score(events_aligned, binary_pred), LAMBDA r :
                      [tried |-> ~r.raised, roc |-> r.roc]))

\* the loop over the thresholds, from the k-th on; best is [roc, threshold]
RECURSIVE RocLoop(_, _, _, _)
RocLoop(thresholds, candidates, k, best) ==
    IF k > Len(thresholds) THEN best
    ELSE IF candidates[k].tried /\ Better(candidates[k].roc, best.roc)
    THEN RocLoop(thresholds, candidates, k + 1,
                 [roc |-> candidates[k].roc, threshold |-> thresholds[k]])
    ELSE RocLoop(thresholds, candidates, k + 1, best)

\* roc_scores[column] of a numeric column
NumericRocScores(xs, events_aligned) ==
    With([k \in DOMAIN roc_quantiles |-> quantile(xs, roc_quantiles[k])],
        LAMBDA thresholds :
    With(RocLoop(thresholds,
                [k \in DOMAIN thresholds |->
                    RocCandidate(xs, events_aligned, thresholds[k])],
                1, [roc |-> Rat(1, 2), threshold |-> None]),
        LAMBDA best :
        [best_roc_auc |-> best.roc,
         best_threshold |-> best.threshold,
         activation_rate |-> IF best.threshold # None
                             THEN Mean(Greater(xs, best.threshold))
                             ELSE Rat(0, 1)]))

\* signal_performance[signal], with the signal
SignalPerformance(field_aligned, events_aligned, signal) ==
    With([i \in DOMAIN field_aligned |-> IF field_aligned[i] = signal THEN 1 ELSE 0],
        LAMBDA signal_mask :
        [signal |-> signal.s,
         effectiveness |-> Mean(Select(events_aligned, signal_mask)),
         frequency |-> Mean(signal_mask),
         count |-> Sum(signal_mask),
         events_when_signal |-> Sum(Select(events_aligned, signal_mask)),
         significant |->
            /\ IsTwoByTwo(signal_mask, events_aligned)
            /\ Significant(chi2_contingency(signal_mask, events_aligned))])

\* signal_performance of a signal column: a dict, modelled by its items in
\* the order they were set
SignalPerformances(field_aligned, events_aligned) ==
    With(SelectSeq(unique(field_aligned), LAMBDA v : v.t = "str" /\ strip(v.s) # ""),
        LAMBDA signals :
        [k \in DOMAIN signals |->
            SignalPerformance(field_aligned, events_aligned, signals[k])])

\* max(signal_performance.keys(), key=effectiveness): the first of the best
BestSignal(signal_performance) ==
    signal_performance[Least({k \in DOMAIN signal_performance :
        \A j \in DOMAIN signal_performance :
            ~RatLt(signal_performance[k].effectiveness,
                   signal_performance[j].effectiveness)})]

\* roc_scores[column] of a signal column with a signal
CategoricalRocScores(signal_performance) ==
    With(BestSignal(signal_performance), LAMBDA best :
        [best_signal |-> best.signal,
         best_effectiveness |-> best.effectiveness,
         best_frequency |-> best.frequency])

\* the kind of entry a column gets: "numeric", "categorical" or "none"
EntryKind(frame, column) ==
    With(AtRows(frame.data[column], NotNaRows(frame.data[column])),
        LAMBDA field_aligned :
        IF IsNumeric(field_aligned) THEN "numeric"
        ELSE IF EndsWith(column, "_signal") THEN "categorical"
        ELSE "none")

\* the body of the loop for one column: its entries in correlations and in
\* roc_scores.  Of the entry of a numeric column in correlations (the
\* correlation of Pearson and its p-value) the model keeps the type only.
ColumnEntry(frame, events_mask, column) ==
    With(NotNaRows(frame.data[column]), LAMBDA common_idx :
    With(AtRows(frame.data[column], common_idx), LAMBDA field_aligned :
    With(AtRows(events_mask, common_idx), LAMBDA events_aligned :
        IF IsNumeric(field_aligned)
        THEN [correlations |-> [field_type |-> "numeric"],
              has_roc |-> TRUE,
              roc_scores |->
                  NumericRocScores(Numbers(field_aligned), events_aligned)]
        ELSE With(SignalPerformances(field_aligned, events_aligned),
                 LAMBDA signal_performance :
                 [correlations |->
                      [field_type |-> "categorical",
                       signal_performance |-> signal_performance],
                  has_roc |-> signal_performance # <<>>,
                  roc_scores |->
                      IF signal_performance # <<>>
                      THEN CategoricalRocScores(signal_performance)
                      ELSE None]))))

\* correlations and roc_scores of calculate_real_correlations
Correlations(frame, events_mask) ==
    With(SelectSeq(AnalysedColumns(frame, min_samples),
               LAMBDA column : EntryKind(frame, column) # "none"),
        LAMBDA columns :
    With([column \in {columns[k] : k \in DOMAIN columns} |->
            ColumnEntry(frame, events_mask, column)], LAMBDA entry :
        [correlations |-> [column \in DOMAIN entry |-> entry[column].correlations],
         roc_scores |-> [column \in {c \in DOMAIN entry : entry[c].has_roc} |->
                            entry[column].roc_scores]]))

---------------------------------------------------------------------------
(* HonestDataDrivenAnalyzer.calculate_real_temporal_lags.                  *)

\* the least number of events
MinLagEvents == 5
\* max_lag
max_lag == 20
\* the least number of activations and of lags
MinLagSamples == 3

\* the rows where a column is active: above its 0.8 quantile for a numeric
\* column, every row for a signal column; <<>> for another column
Activations(frame, column) ==
    With(NotNaRows(frame.data[column]), LAMBDA rows :
    With(AtRows(frame.data[column], rows), LAMBDA field_data :
        IF IsNumeric(field_data)
        THEN With(Greater(Numbers(field_data), quantile(Numbers(field_data), 80)),
                 LAMBDA active :
                 AtRows(rows, SelectSeq([k \in DOMAIN rows |-> k],
                                     LAMBDA k : active[k] = 1)))
        ELSE IF EndsWith(column, "_signal") THEN rows
        ELSE <<>>))

\* lags_found: for each event with an activation before it, at most max_lag
\* rows back, the distance to the closest one
LagsFound(activations, events_indices) ==
    With([e \in DOMAIN events_indices |->
            {activations[k] : k \in
                {k \in DOMAIN activations :
                    /\ activations[k] < events_indices[e]
                    /\ events_indices[e] - activations[k] <= max_lag}}],
        LAMBDA prior_activations :
        With(SelectSeq([e \in DOMAIN events_indices |-> e],
                   LAMBDA e : prior_activations[e] # {}), LAMBDA with_prior :
            [k \in DOMAIN with_prior |->
                events_indices[with_prior[k]]
                - Greatest(prior_activations[with_prior[k]])]))

\* temporal_lags: of the entry of a column the model keeps the mean, the
\* least and the greatest lag, their number and the predictive power
TemporalLags(frame, events_mask) ==
    With(SelectSeq([i \in DOMAIN events_mask |-> i], LAMBDA i : events_mask[i] = 1),
        LAMBDA events_indices :
    With([k \in DOMAIN frame.columns |->
            IF In(frame.columns[k], AnalysedColumns(frame, 10))
            THEN Activations(frame, frame.columns[k]) ELSE <<>>],
        LAMBDA activations :
    With([k \in DOMAIN frame.columns |->
            IF Len(activations[k]) < MinLagSamples THEN <<>>
            ELSE LagsFound(activations[k], events_indices)], LAMBDA lags_found :
        [column \in {frame.columns[k] : k \in
                        {k \in DOMAIN frame.columns :
                            Len(lags_found[k]) >= MinLagSamples}} |->
            With(lags_found[CHOOSE k \in DOMAIN frame.columns :
                               frame.columns[k] = column], LAMBDA lags :
                [mean_lag |-> Rat(Total(lags), Len(lags)),
                 min_lag |-> Least({lags[k] : k \in DOMAIN lags}),
                 max_lag |-> Greatest({lags[k] : k \in DOMAIN lags}),
                 lag_samples |-> Len(lags),
                 predictive_power |-> Rat(Len(lags), Len(events_indices))])])))

---------------------------------------------------------------------------
(* HonestDataDrivenAnalyzer.find_veto_fields.                              *)

\* the percentiles of the VETO thresholds, in hundredths
veto_percentiles == <<10, 20, 30, 80, 90, 95>>

\* the greatest percentile of a low condition
MaxLowPercentile == 30

\* the activations a condition needs more than
MinVetoActivations == 5

\* self.config['veto']['effectiveness_threshold']
effectiveness_threshold == Rat(3, 10)

\* veto_effectiveness > self.config['veto']['effectiveness_threshold']
IsEffective(veto_effectiveness) == RatLt(effectiveness_threshold, veto_effectiveness)

\* the body of the loop over the percentiles, for one column: the entry it
\* puts into veto_fields, with its name, or nothing
VetoStep(column, xs, events_aligned, percentile) ==
    With(quantile(xs, percentile), LAMBDA threshold :
    With(IF percentile <= MaxLowPercentile THEN LessEqual(xs, threshold)
        ELSE GreaterEqual(xs, threshold), LAMBDA condition :
        IF ~(Sum(condition) > MinVetoActivations) THEN <<>>
        ELSE
    With(Select(events_aligned, condition), LAMBDA events_with_veto :
    With(Select(events_aligned, Not(condition)), LAMBDA events_without_veto :
        IF ~(Len(events_without_veto) > 0 /\ Len(events_with_veto) > 0) THEN <<>>
        ELSE
    With(Mean(events_with_veto), LAMBDA veto_event_rate :
    With(Mean(events_without_veto), LAMBDA normal_event_rate :
        IF ~(normal_event_rate.num > 0) THEN <<>>
        ELSE
    With(RatDiv(RatSub(normal_event_rate, veto_event_rate), normal_event_rate),
        LAMBDA veto_effectiveness :
    With(/\ IsTwoByTwo(condition, events_aligned)
        /\ Significant(chi2_contingency(condition, events_aligned)),
        LAMBDA significant :
        IF ~(IsEffective(veto_effectiveness) /\ significant) THEN <<>>
        ELSE <<[veto_name |-> column \o (IF percentile <= MaxLowPercentile
                                         THEN "_low" ELSE "_high"),
                entry |->
                 [base_field |-> column,
                  threshold |-> threshold,
                  condition |-> IF percentile <= MaxLowPercentile
                                THEN "low" ELSE "high",
                  veto_effectiveness |-> veto_effectiveness,
                  normal_event_rate |-> normal_event_rate,
                  veto_event_rate |-> veto_event_rate,
                  activation_frequency |-> Mean(condition),
                  significant |-> significant,
                  events_blocked |->
                     int(RatMul(Rat(Sum(events_without_veto) - Sum(events_with_veto), 1),
                                Mean(condition)))]]>>))))))))

\* the entries the loop over the percentiles puts for one column, in its
\* order
ColumnVetos(frame, events_mask, column) ==
    With(NotNaRows(frame.data[column]), LAMBDA common_idx :
    With(AtRows(frame.data[column], common_idx), LAMBDA field_aligned :
        IF IsNumeric(field_aligned)
        THEN Concat([k \in DOMAIN veto_percentiles |->
                 VetoStep(column, Numbers(field_aligned),
                          AtRows(events_mask, common_idx), veto_percentiles[k])])
        ELSE <<>>))

\* veto_fields of find_veto_fields: the last entry put under each name
VetoFields(frame, events_mask) ==
    With(AnalysedColumns(frame, 10), LAMBDA columns :
    With(Concat([k \in DOMAIN columns |->
                   ColumnVetos(frame, events_mask, columns[k])]), LAMBDA found :
        [veto_name \in {found[k].veto_name : k \in DOMAIN found} |->
            found[Greatest({k \in DOMAIN found :
                      found[k].veto_name = veto_name})].entry]))

---------------------------------------------------------------------------
(* HonestDataDrivenAnalyzer.create_honest_scoring_system.                  *)

\* the ROC-AUC a numeric field has to exceed, 0.55
MinScoringRoc == Rat(55, 100)

\* the least count of a signal
MinSignalCount == 5

\* signal.replace('!', 'excl')
RECURSIVE ReplaceExcl(_)
ReplaceExcl(s) ==
    IF Len(s) = 0 THEN ""
    ELSE (IF At(s, 1) = "!" THEN "excl" ELSE At(s, 1)) \o ReplaceExcl(From(s, 2))

\* 1. the numeric fields that give a feature, in the order of
\* field_roc_scores, which is the order of the columns
NumericScoringFields(frame, roc_scores) ==
    SelectSeq(frame.columns, LAMBDA field :
        /\ field \in DOMAIN roc_scores
        /\ ~EndsWith(field, "_signal")
        /\ RatLt(MinScoringRoc, roc_scores[field].best_roc_auc)
        /\ roc_scores[field].best_threshold # None)

\* a variant of CategoricalImportance without the floor at zero
CategoricalImportanceUnfloored(stats, base_event_rate) ==
    IF base_event_rate.num > 0
    THEN RatMul(RatSub(RatDiv(stats.effectiveness, base_event_rate), Rat(1, 1)),
                stats.frequency)
    ELSE RatMul(stats.effectiveness, stats.frequency)

\* the importance of the feature of a signal: max(0, importance)
CategoricalImportance(stats, base_event_rate) ==
    With(IF base_event_rate.num > 0
        THEN RatMul(RatSub(RatDiv(stats.effectiveness, base_event_rate), Rat(1, 1)),
                    stats.frequency)
        ELSE RatMul(stats.effectiveness, stats.frequency), LAMBDA importance :
        IF RatLt(Rat(0, 1), importance) THEN importance ELSE Rat(0, 1))

\* 2. the signals that give a feature, as [field, stats], in the order of
\* field_correlations and of signal_performance
ScoringSignals(frame, correlations) ==
    With(SelectSeq(frame.columns, LAMBDA field :
            /\ field \in DOMAIN correlations
            /\ EndsWith(field, "_signal")
            /\ "signal_performance" \in DOMAIN correlations[field]),
        LAMBDA fields :
        Concat([k \in DOMAIN fields |->
            With(SelectSeq(correlations[fields[k]].signal_performance, LAMBDA stats :
                    stats.significant /\ stats.count >= MinSignalCount),
                LAMBDA performing :
                [j \in DOMAIN performing |->
                    [field |-> fields[k], stats |-> performing[j]]])]))

\* 3. the names of the VETO conditions that give a feature, in the order
\* of veto_fields: by column, the low condition before the high one
ScoringVetos(frame, vetos) ==
    SelectSeq(Concat([k \in DOMAIN frame.columns |->
               <<frame.columns[k] \o "_low", frame.columns[k] \o "_high">>]),
           LAMBDA veto_name :
               /\ veto_name \in DOMAIN vetos
               /\ vetos[veto_name].significant
               /\ In(vetos[veto_name].base_field, frame.columns))

\* the importance of the feature of a VETO condition
VetoImportance(veto_data) ==
    RatMul(RatNeg(veto_data.veto_effectiveness), veto_data.activation_frequency)

\* the frame of the three loops, as [name, importance, column] in the
\* order the loops append them to scoring_features
ScoringFeatures(frame, event_rate, correlations, roc_scores, vetos) ==
    With(NumericScoringFields(frame, roc_scores), LAMBDA numeric :
    With(ScoringSignals(frame, correlations), LAMBDA signals :
    With(ScoringVetos(frame, vetos), LAMBDA veto_names :
        [k \in DOMAIN numeric |->
            [name |-> numeric[k] \o "_activated",
             importance |-> RatSub(roc_scores[numeric[k]].best_roc_auc, Rat(1, 2)),
             column |-> CompareColumn(frame.data[numeric[k]], Greater,
                                      roc_scores[numeric[k]].best_threshold)]]
        \o
        [k \in DOMAIN signals |->
            [name |-> signals[k].field \o "_" \o ReplaceExcl(signals[k].stats.signal)
                      \o "_activated",
             importance |-> CategoricalImportance(signals[k].stats, event_rate),
             column |-> [i \in 1..RowCount(frame) |->
                            IntV(IF frame.data[signals[k].field][i]
                                    = StrV(signals[k].stats.signal)
                                 THEN 1 ELSE 0)]]]
        \o
        [k \in DOMAIN veto_names |->
            [name |-> veto_names[k] \o "_veto",
             importance |-> VetoImportance(vetos[veto_names[k]]),
             column |-> IF vetos[veto_names[k]].condition = "low"
                        THEN CompareColumn(
                                 frame.data[vetos[veto_names[k]].base_field],
                                 LessEqual, vetos[veto_names[k]].threshold)
                        ELSE CompareColumn(
                                 frame.data[vetos[veto_names[k]].base_field],
                                 GreaterEqual, vetos[veto_names[k]].threshold)]])))

\* feature_importance before the normalisation
RawImportance(scoring_features) ==
    [name \in {scoring_features[k].name : k \in DOMAIN scoring_features} |->
        scoring_features[Greatest({k \in DOMAIN scoring_features :
                             scoring_features[k].name = name})].importance]

\* the normalisation of feature_importance: 0.8 over the positive
\* importances, 0.2 over the negative ones
Normalised(importance, names) ==
    With(RatSum([k \in DOMAIN names |->
            IF importance[names[k]].num > 0 THEN importance[names[k]]
            ELSE Rat(0, 1)]), LAMBDA total_positive_importance :
    With(RatNeg(RatSum([k \in DOMAIN names |->
            IF importance[names[k]].num < 0 THEN importance[names[k]]
            ELSE Rat(0, 1)])), LAMBDA total_negative_importance :
        IF ~(total_positive_importance.num > 0) THEN importance
        ELSE [f \in DOMAIN importance |->
                IF importance[f].num > 0
                THEN RatMul(RatDiv(importance[f], total_positive_importance),
                            Rat(8, 10))
                ELSE IF importance[f].num < 0 /\ total_negative_importance.num > 0
                     THEN RatMul(RatDiv(importance[f], total_negative_importance),
                                 Rat(2, 10))
                ELSE importance[f]]))

\* self.features with the columns of the scoring frame
WithScoringColumns(frame, scoring_features) ==
    Assigned(frame, [k \in DOMAIN scoring_features |->
                        Assignment(scoring_features[k].name,
                                   scoring_features[k].column)])

\* self.scoring_system
ScoringSystem(scoring_features) ==
    With([k \in DOMAIN scoring_features |-> scoring_features[k].name], LAMBDA names :
        [features |-> names,
         feature_importance |-> Normalised(RawImportance(scoring_features),
                                            unique(names)),
         total_features |-> Len(names),
         numeric_features |->
            Len(SelectSeq(names, LAMBDA f :
                    ~EndsWith(f, "_veto") /\ ~Contains(f, "excl"))),
         categorical_features |-> Len(SelectSeq(names, LAMBDA f : Contains(f, "excl"))),
         veto_features |-> Len(SelectSeq(names, LAMBDA f : EndsWith(f, "_veto"))),
         methodology |-> "data_driven_statistical"])

\* self.scoring_system = None
NoScoringSystem ==
    [features |-> <<>>, feature_importance |-> EmptyDict, total_features |-> 0,
     numeric_features |-> 0, categorical_features |-> 0, veto_features |-> 0,
     methodology |-> ""]
---------------------------------------------------------------------------
(* AdvancedEventDetector: extrema and retracements.  Rows are numbered     *)
(* from 1 (the code numbers them from 0); prices are in                    *)
(* 10^-MaxFracDigits units.                                                *)

retracement_levels == <<2, 3, 5, 7, 10>>

\* retracement_time_window[1]
max_time == 90

min_extremum_move == 1

\* the smallest order of argrelextrema in _find_extrema: an extremum of a
\* greater order is one of this order, and drop_duplicates keeps one row
\* of an index and type
extremum_order == 5

\* the least retracement _analyze_retracement_from_extremum reports, percent
min_retracement == 2

\* mode='clip' of argrelextrema: a row beyond an end is the end
Clip(i, n) == IF i < 1 THEN 1 ELSE IF i > n THEN n ELSE i

\* argrelextrema(xs, np.greater, order): xs[i] is greater than the
\* extremum_order rows on each side
IsRelHigh(xs, i) ==
    \A shift \in 1..extremum_order :
        /\ xs[i] > xs[Clip(i + shift, Len(xs))]
        /\ xs[i] > xs[Clip(i - shift, Len(xs))]

\* argrelextrema(xs, np.less, order)
IsRelLow(xs, i) ==
    \A shift \in 1..extremum_order :
        /\ xs[i] < xs[Clip(i + shift, Len(xs))]
        /\ xs[i] < xs[Clip(i - shift, Len(xs))]

\* the rows of extrema_data of the row i, the high before the low
ExtremaAt(high, low, i) ==
    (IF IsRelHigh(high, i)
     THEN <<[index |-> i, type |-> "high", price |-> high[i]]>> ELSE <<>>)
    \o (IF IsRelLow(low, i)
        THEN <<[index |-> i, type |-> "low", price |-> low[i]]>> ELSE <<>>)

\* abs((price - prev_price) / prev_price) * 100 >= min_extremum_move
IsSignificantMove(price, prev_price) ==
    Abs(price - prev_price) * 100 >= min_extremum_move * Abs(prev_price)

\* _filter_significant_extrema: the first extremum, and every later one
\* that moved enough from the last one kept
RECURSIVE FilterSignificant(_, _, _)
FilterSignificant(extrema, k, significant_extrema) ==
    IF k > Len(extrema) THEN significant_extrema
    ELSE IF significant_extrema = <<>>
         \/ IsSignificantMove(extrema[k].price,
                              significant_extrema[Len(significant_extrema)].price)
    THEN FilterSignificant(extrema, k + 1, Append(significant_extrema, extrema[k]))
    ELSE FilterSignificant(extrema, k + 1, significant_extrema)

\* _find_extrema: the extrema by the row, filtered
find_extrema(high, low) ==
    FilterSignificant(Concat([i \in DOMAIN high |-> ExtremaAt(high, low, i)]),
                      1, <<>>)

\* the state of the loop of _analyze_retracement_from_extremum before the
\* row of the first search
SearchStart(extremum_price) ==
    [max_retracement |-> Rat(0, 1), max_retracement_idx |-> 0,
     retracement_end_idx |-> 0, current_extremum_price |-> extremum_price]

\* retracement_pct at a row: the way down from a high to the low of the
\* row, the way up from a low to its high, in percent of the extremum
RetracementPct(high, low, extremum_price, extremum_type, row) ==
    IF extremum_type = "high"
    THEN Rat((extremum_price - low[row]) * 100, extremum_price)
    ELSE Rat((high[row] - extremum_price) * 100, extremum_price)

\* whether the row goes on from current_extremum_price
GoesOn(high, low, extremum_type, row, current_extremum_price) ==
    IF extremum_type = "high" THEN low[row] <= current_extremum_price
    ELSE high[row] >= current_extremum_price

\* the loop of _analyze_retracement_from_extremum over the rows row..last
RECURSIVE SearchLoop(_, _, _, _, _, _, _)
SearchLoop(high, low, extremum_price, extremum_type, row, last, st) ==
    IF row > last THEN st
    ELSE IF GoesOn(high, low, extremum_type, row, st.current_extremum_price)
    THEN With(RetracementPct(high, low, extremum_price, extremum_type, row),
              LAMBDA retracement_pct :
         SearchLoop(high, low, extremum_price, extremum_type, row + 1, last,
             [max_retracement |->
                  IF RatLt(st.max_retracement, retracement_pct)
                  THEN retracement_pct ELSE st.max_retracement,
              max_retracement_idx |->
                  IF RatLt(st.max_retracement, retracement_pct)
                  THEN row ELSE st.max_retracement_idx,
              retracement_end_idx |-> st.retracement_end_idx,
              current_extremum_price |->
                  IF extremum_type = "high" THEN low[row] ELSE high[row]]))
    ELSE IF RatLt(Rat(0, 1), st.max_retracement)
    THEN [st EXCEPT !.retracement_end_idx = row]
    ELSE SearchLoop(high, low, extremum_price, extremum_type, row + 1, last, st)

\* _classify_retracement_level
classify_retracement_level(retracement_pct) ==
    IF ~RatLt(retracement_pct, Rat(10, 1)) THEN 10
    ELSE IF ~RatLt(retracement_pct, Rat(7, 1)) THEN 7
    ELSE IF ~RatLt(retracement_pct, Rat(5, 1)) THEN 5
    ELSE IF ~RatLt(retracement_pct, Rat(3, 1)) THEN 3
    ELSE 2

NoRetracement == [found |-> FALSE, level |-> 0, strength |-> Rat(0, 1), end_index |-> 0]

\* _analyze_retracement_from_extremum
analyze_retracement_from_extremum(high, low, extremum) ==
    IF extremum.index + 1 > Len(high) THEN NoRetracement
    ELSE With(SearchLoop(high, low, extremum.price, extremum.type,
                         extremum.index + 1,
                         Least({Len(high), extremum.index + max_time - 1}),
                         SearchStart(extremum.price)), LAMBDA st :
         IF ~RatLt(st.max_retracement, Rat(min_retracement, 1))
         THEN [found |-> TRUE,
               level |-> classify_retracement_level(st.max_retracement),
               strength |-> st.max_retracement,
               end_index |-> IF st.retracement_end_idx # 0
                             THEN st.retracement_end_idx
                             ELSE st.max_retracement_idx]
         ELSE NoRetracement)

\* _get_retracement_column
get_retracement_column(level) ==
    IF level >= 10 THEN "retracement_10pct_plus"
    ELSE IF level >= 7 THEN "retracement_7_10pct"
    ELSE IF level >= 5 THEN "retracement_5_7pct"
    ELSE IF level >= 3 THEN "retracement_3_5pct"
    ELSE "retracement_2_3pct"

\* the name of the column _detect_retracements creates for a level
InitialLevelColumn(level) ==
    IF level < 10
    THEN "retracement_" \o ToString(level) \o "_" \o ToString(level + 1) \o "pct"
    ELSE "retracement_" \o ToString(level) \o "pct_plus"

\* the columns of the levels, the type and the strength as
\* _detect_retracements creates them on n rows
InitialRetracementColumns(n) ==
    [levels |-> [column \in {InitialLevelColumn(retracement_levels[k]) :
                                k \in DOMAIN retracement_levels} |->
                    [row \in 1..n |-> 0]],
     retracement_type |-> [row \in 1..n |-> "none"],
     retracement_strength |-> [row \in 1..n |-> Rat(0, 1)]]

\* f"retracement_{retracement_level:.1f}pct"
RetracementType(level) == "retracement_" \o ToString(level) \o ".0pct"

\* the body of the loop of _detect_retracements for one extremum
MarkRetracement(columns, retracement_info) ==
    With(get_retracement_column(retracement_info.level), LAMBDA level_column :
        IF retracement_info.found /\ level_column \in DOMAIN columns.levels
        THEN [levels |->
                  [columns.levels EXCEPT
                      ![level_column][retracement_info.end_index] = 1],
              retracement_type |->
                  [columns.retracement_type EXCEPT
                      ![retracement_info.end_index] =
                          RetracementType(retracement_info.level)],
              retracement_strength |->
                  [columns.retracement_strength EXCEPT
                      ![retracement_info.end_index] = retracement_info.strength]]
        ELSE columns)

RECURSIVE MarkRetracements(_, _, _, _, _)
MarkRetracements(high, low, extrema, k, columns) ==
    IF k > Len(extrema) THEN columns
    ELSE With(MarkRetracement(columns,
                  analyze_retracement_from_extremum(high, low, extrema[k])),
              LAMBDA marked :
             MarkRetracements(high, low, extrema, k + 1, marked))

\* _detect_retracements
detect_retracements(high, low, extrema) ==
    MarkRetracements(high, low, extrema, 1, InitialRetracementColumns(Len(high)))
---------------------------------------------------------------------------
(* ParserIntegration: the frame of parse_log_file with its columns in      *)
(* order, and the columns of the features made from it.                    *)

\* the keys of a dict as a sequence, a key before the keys it starts
KeySeq(d) ==
    [k \in 1..Cardinality(DOMAIN d) |->
        CHOOSE key \in DOMAIN d :
            Cardinality({other \in DOMAIN d : Len(other) < Len(key)}) = k - 1]

\* the keys _extract_all_indicator_fields inserts, in the order it inserts
\* them: match by match of each pattern, the field before its _signal or
\* _type
IndicatorKeyOrder(pattern, line) ==
    With(<<pattern, "special_htf", "progress_ltf", "progress_htf">>, LAMBDA kinds :
        Concat([k \in DOMAIN kinds |->
            With(findall(kinds[k], line), LAMBDA ms :
                Concat([j \in DOMAIN ms |->
                    KeySeq(FieldStep(kinds[k], EmptyDict, ms[j]))]))]))

\* the keys of the record of a line in the order _parse_single_line and
\* _extract_metadata insert them
InsertionOrder(pattern, rec) ==
    SelectSeq(
        unique(<<"line_number", "raw_line", "timestamp", "open", "high", "low",
                 "close", "volume", "range", "candle_color", "candle_type">>
               \o IndicatorKeyOrder(pattern, rec["raw_line"].s)),
        LAMBDA key : key \in DOMAIN rec)

\* pd.DataFrame(parsed_records): a column for every key, in the order of
\* the first record that has it
RecordsFrame(pattern, parsed_records) ==
    With(unique(Concat([i \in DOMAIN parsed_records |->
                           InsertionOrder(pattern, parsed_records[i])])),
         LAMBDA columns :
        [columns |-> columns,
         data |-> [c \in {columns[k] : k \in DOMAIN columns} |->
                     [i \in DOMAIN parsed_records |->
                         IF c \in DOMAIN parsed_records[i]
                         THEN parsed_records[i][c] ELSE NaN]]])

\* re.match(r'^!+$', str(value))
IsExclamations(v) ==
    v.t = "str" /\ Len(v.s) > 0 /\ \A k \in 1..Len(v.s) : At(v.s, k) = "!"

\* _detect_special_patterns: the runs of exclamation marks in the columns
\* that are no metadata, the shorter first, with 1000, 1500, ... for them;
\* what was detected before stays when there is none
detect_special_patterns(data, detected_before) ==
    With({data.data[c][i].s :
              c \in {col \in DOMAIN data.data : ~In(col, metadata_fields)},
              i \in 1..RowCount(data)}, LAMBDA texts :
    With({s \in texts : IsExclamations(StrV(s))}, LAMBDA special_patterns :
        IF special_patterns = {} THEN detected_before
        ELSE [k \in 1..Cardinality(special_patterns) |->
                 [pattern |-> CHOOSE s \in special_patterns :
                      Cardinality({o \in special_patterns : Len(o) < Len(s)}) = k - 1,
                  value |-> 1000 + 500 * (k - 1)]]))

\* special_val.replace('!', 'EXCL')
ReplaceEXCL(s) ==
    Concat([k \in 1..Len(s) |-> IF At(s, k) = "!" THEN "EXCL" ELSE At(s, k)])

\* the columns _add_equal_indicator_features assigns for one field
EqualIndicatorColumns(data, specials, field) ==
    <<"IND_" \o field, "IND_" \o field \o "_ACTIVE">>
    \o Concat([k \in DOMAIN specials |->
           IF \E i \in 1..RowCount(data) :
                  data.data[field][i] = StrV(specials[k].pattern)
           THEN <<"IND_" \o field \o "_" \o ReplaceEXCL(specials[k].pattern)>>
           ELSE <<>>])

\* _add_equal_indicator_features
add_equal_indicator_features(data, specials) ==
    With(IndicatorFields(data), LAMBDA fields :
        unique(Concat([k \in DOMAIN fields |->
            EqualIndicatorColumns(data, specials, fields[k])])))

\* indicator_cols[:10]
derivative_limit == 10

\* a variant of DerivedFrom that takes no column
DerivedFromNone(indicator_cols) == <<>>

\* the columns _add_indicator_derivatives derives from: the first
\* derivative_limit of the indicator columns
DerivedFrom(indicator_cols) ==
    SubSeq(indicator_cols, 1, Least({derivative_limit, Len(indicator_cols)}))

\* _add_indicator_derivatives: the columns it adds to the feature columns
add_indicator_derivatives(feature_columns) ==
    With(DerivedFrom(SelectSeq(feature_columns,
                               LAMBDA col : StartsWith(col, "IND_"))),
         LAMBDA cols :
        Concat([k \in DOMAIN cols |->
            <<cols[k] \o "_LAG1", cols[k] \o "_LAG2", cols[k] \o "_DIFF",
              cols[k] \o "_MA3">>]))

\* _add_metadata_features
add_metadata_features(data) ==
    With(SelectSeq(metadata_fields, LAMBDA field : In(field, data.columns)),
         LAMBDA present :
        [k \in DOMAIN present |-> "META_" \o present[k]]
        \o (IF \A col \in {"open", "high", "low", "close"} : In(col, present)
            THEN <<"META_price_range">> ELSE <<>>))

\* _create_data_driven_features: the columns of the features
create_data_driven_features(data, specials) ==
    With(add_equal_indicator_features(data, specials), LAMBDA indicators :
        unique(indicators \o add_indicator_derivatives(indicators)
               \o add_metadata_features(data)))

NoResults == [has_full_data |-> FALSE, full_data |-> NoFrame]

\* get_features_for_main_system: the columns of the frame it returns
get_features_for_main_system(results, specials) ==
    IF ~results.has_full_data THEN <<>>
    ELSE create_data_driven_features(results.full_data, specials)

\* the log lines the integration reads
IntegrationLines ==
    {TestLine, "# header", "xx2-3", "o:1.5|h:2|l:1|c:2|rng:1|DOJI",
     "od2-3", "ro2-11|so2-11", "bs", "co2-!!", "|11.5K|od1h-3.5"}

IntegrationFiles == UNION {[1..n -> IntegrationLines] : n \in 0..MaxLines}
---------------------------------------------------------------------------
(* ScalpAnalyzer.  Rows are numbered from 1; the label of the row i of     *)
(* the frame is i - 1.  The types of the events are written in Latin       *)
(* letters: LOW_COUNTERTREND, DUMP_CONTINUATION, HIGH_COUNTERTREND and     *)
(* PUMP_CONTINUATION.                                                      *)

\* window of find_events
scalp_window == 10

\* the candles after an extremum that find_events looks at
future_candles == 30

\* the least length of future_data
min_future == 10

\* the least rebound or pullback of a countertrend event, percent
countertrend_pct == 3

\* a rebound or pullback below it is a continuation, percent
continuation_pct == 1

\* the candles before an event whose indicators analyze_patterns reads
pattern_candles == 5

key_indicators == <<"nw2", "ef2", "as2", "vc2", "ze2", "co2", "ro2", "so2">>

\* the rows of rolling(window=scalp_window, center=True) at the row i; the
\* result is NaN when a row of them is missing or NaN
RollingRows(i) == (i - scalp_window \div 2)..(i + (scalp_window - 1) \div 2)

HasRolling(xs, i) ==
    \A j \in RollingRows(i) : j \in DOMAIN xs /\ IsNumber(xs[j])

\* a > b on two cells: False when one is NaN
CellGreater(a, b) == IsNumber(a) /\ IsNumber(b) /\ Num(a) > Num(b)

\* is_local_low
is_local_low(low, i) ==
    /\ HasRolling(low, i)
    /\ Num(low[i]) = Least({Num(low[j]) : j \in RollingRows(i)})
    /\ i - 1 \in DOMAIN low /\ CellGreater(low[i - 1], low[i])
    /\ i + 1 \in DOMAIN low /\ CellGreater(low[i + 1], low[i])

\* is_local_high
is_local_high(high, i) ==
    /\ HasRolling(high, i)
    /\ Num(high[i]) = Greatest({Num(high[j]) : j \in RollingRows(i)})
    /\ i - 1 \in DOMAIN high /\ CellGreater(high[i], high[i - 1])
    /\ i + 1 \in DOMAIN high /\ CellGreater(high[i], high[i + 1])

\* the rows of self.df.loc[idx:idx+30]
FutureRows(i, n) == i..Least({i + future_candles, n})

\* the numbers of a series at a set of rows
NumbersAt(xs, rows) == {Num(xs[j]) : j \in {r \in rows : IsNumber(xs[r])}}

\* the event of a local low at the row i, if it is one
LowEvent(df, i) ==
    With(FutureRows(i, RowCount(df)), LAMBDA future_data :
    With(NumbersAt(df.data["high"], future_data), LAMBDA highs :
        IF Cardinality(future_data) < min_future \/ highs = {}
           \/ Num(df.data["low"][i]) <= 0
        THEN <<>>
        ELSE With(Rat((Greatest(highs) - Num(df.data["low"][i])) * 100,
                      Num(df.data["low"][i])), LAMBDA rebound_pct :
                 IF ~RatLt(rebound_pct, Rat(countertrend_pct, 1))
                 THEN <<[type |-> "LOW_COUNTERTREND",
                         price |-> df.data["low"][i],
                         pct |-> rebound_pct, line_number |-> i - 1]>>
                 ELSE IF RatLt(rebound_pct, Rat(continuation_pct, 1))
                 THEN <<[type |-> "DUMP_CONTINUATION",
                         price |-> df.data["low"][i],
                         pct |-> rebound_pct, line_number |-> i - 1]>>
                 ELSE <<>>)))

\* the event of a local high at the row i, if it is one
HighEvent(df, i) ==
    With(FutureRows(i, RowCount(df)), LAMBDA future_data :
    With(NumbersAt(df.data["low"], future_data), LAMBDA lows :
        IF Cardinality(future_data) < min_future \/ lows = {}
           \/ Num(df.data["high"][i]) <= 0
        THEN <<>>
        ELSE With(Rat((Num(df.data["high"][i]) - Least(lows)) * 100,
                      Num(df.data["high"][i])), LAMBDA pullback_pct :
                 IF ~RatLt(pullback_pct, Rat(countertrend_pct, 1))
                 THEN <<[type |-> "HIGH_COUNTERTREND",
                         price |-> df.data["high"][i],
                         pct |-> pullback_pct, line_number |-> i - 1]>>
                 ELSE IF RatLt(pullback_pct, Rat(continuation_pct, 1))
                 THEN <<[type |-> "PUMP_CONTINUATION",
                         price |-> df.data["high"][i],
                         pct |-> pullback_pct, line_number |-> i - 1]>>
                 ELSE <<>>)))

\* find_events: [raised, events].  It raises KeyError when the frame has no
\* low or no high column, and when an event is found in a frame without a
\* timestamp column
find_events(df) ==
    IF ~In("low", df.columns) \/ ~In("high", df.columns)
    THEN [raised |-> TRUE, events |-> <<>>]
    ELSE With(Concat([i \in 1..RowCount(df) |->
                  IF is_local_low(df.data["low"], i)
                  THEN LowEvent(df, i) ELSE <<>>])
              \o Concat([i \in 1..RowCount(df) |->
                  IF is_local_high(df.data["high"], i)
                  THEN HighEvent(df, i) ELSE <<>>]), LAMBDA found :
             IF found # <<>> /\ ~In("timestamp", df.columns)
             THEN [raised |-> TRUE, events |-> <<>>]
             ELSE [raised |-> FALSE, events |-> found])

\* the last value that is not NaN of the indicator in the pattern_candles
\* rows before the event: a sequence of it, or the empty one
LastValue(df, event, indicator) ==
    IF ~In(indicator, df.columns) THEN <<>>
    ELSE With({i \in (Greatest({0, event.line_number - pattern_candles}) + 1)
                      ..event.line_number :
                  df.data[indicator][i] # NaN}, LAMBDA rows :
             IF rows = {} THEN <<>>
             ELSE <<df.data[indicator][Greatest(rows)]>>)

\* patterns[event_type][indicator]
PatternValues(df, events_found, event_type, indicator) ==
    Concat([k \in DOMAIN events_found |->
        IF events_found[k].type = event_type
        THEN LastValue(df, events_found[k], indicator) ELSE <<>>])

\* the entry of pattern_stats for values: count, mean, min and max (the
\* model leaves std out)
PatternStat(values) ==
    [count |-> Len(values),
     mean |-> Rat(Total(Numbers(values)), Len(values)),
     min |-> Least({Num(values[k]) : k \in DOMAIN values}),
     max |-> Greatest({Num(values[k]) : k \in DOMAIN values})]

\* pattern_stats[event_type]: an entry for every indicator with values
TypeStats(df, events_found, event_type) ==
    With({key_indicators[k] : k \in DOMAIN key_indicators}, LAMBDA indicators :
        [indicator \in {ind \in indicators :
             PatternValues(df, events_found, event_type, ind) # <<>>} |->
            PatternStat(PatternValues(df, events_found, event_type, indicator))])

\* analyze_patterns: [raised, set, pattern_stats]; set tells whether the
\* method has assigned self.pattern_stats.  np.mean raises on values that
\* are no numbers.
analyze_patterns(df, events_found) ==
    IF events_found = <<>>
    THEN [raised |-> FALSE, set |-> FALSE, pattern_stats |-> EmptyDict]
    ELSE With({events_found[k].type : k \in DOMAIN events_found}, LAMBDA types :
         IF \E event_type \in types : \E k \in DOMAIN key_indicators :
                ~IsNumeric(PatternValues(df, events_found, event_type,
                                         key_indicators[k]))
         THEN [raised |-> TRUE, set |-> TRUE, pattern_stats |-> EmptyDict]
         ELSE [raised |-> FALSE, set |-> TRUE,
               pattern_stats |->
                   [event_type \in types |->
                       TypeStats(df, events_found, event_type)]])

\* create_simple_report: whether it writes the report file
create_simple_report(has_pattern_stats, stats) ==
    has_pattern_stats /\ DOMAIN stats # {}

NotAnalyzed ==
    [stages |-> <<>>, raised |-> FALSE, df |-> NoFrame, events |-> <<>>,
     has_pattern_stats |-> FALSE, pattern_stats |-> EmptyDict,
     report_written |-> FALSE]

\* analyze_log: the stages that ran to their end, whether one raised, and
\* what the analyzer holds after it
analyze_log(lines) ==
    With(parse_log_file("original", lines), LAMBDA parsed :
    IF parsed.raised THEN [NotAnalyzed EXCEPT !.raised = TRUE]
    ELSE IF parsed.df = <<>> THEN [NotAnalyzed EXCEPT !.stages = <<"parse_log_file">>]
    ELSE With(RecordsFrame("original", parsed.df), LAMBDA df :
         With(find_events(df), LAMBDA found :
         IF found.raised
         THEN [NotAnalyzed EXCEPT !.stages = <<"parse_log_file">>,
                                  !.raised = TRUE, !.df = df]
         ELSE With(analyze_patterns(df, found.events), LAMBDA analysed :
              IF analysed.raised
              THEN [NotAnalyzed EXCEPT
                       !.stages = <<"parse_log_file", "find_events">>,
                       !.raised = TRUE, !.df = df, !.events = found.events]
              ELSE [stages |-> <<"parse_log_file", "find_events",
                                 "analyze_patterns", "create_simple_report">>,
                    raised |-> FALSE, df |-> df, events |-> found.events,
                    has_pattern_stats |-> analysed.set,
                    pattern_stats |-> analysed.pattern_stats,
                    report_written |->
                        create_simple_report(analysed.set,
                                             analysed.pattern_stats)]))))

\* a number of hundredths as a log writes it
Decimal(n) ==
    ToString(n \div 100) \o "." \o ToString((n % 100) \div 10)
    \o ToString(n % 10)

\* a log line of a candle with the four prices at price
CandleLine(price, with_timestamp, with_prices, tokens) ==
    (IF with_timestamp THEN "[t] " ELSE "")
    \o (IF with_prices
        THEN "o:" \o Decimal(price) \o "|h:" \o Decimal(price)
             \o "|l:" \o Decimal(price) \o "|c:" \o Decimal(price)
        ELSE "LTF")
    \o tokens

\* the prices of ScalpRows candles that fall (shape -1) or rise (shape 1)
\* by step a row to the row turn and go back after it
TurnPath(shape, turn, step) ==
    [i \in 1..ScalpRows |-> 10000 - shape * step * Abs(i - turn)]

ScalpTokens == {"", "|ro2-11", "|co2--213", "|so2-1.5|ze2-3"}

ScalpFiles ==
    {<<>>, <<"# header", "">>}
    \cup {[i \in 1..ScalpRows |->
              CandleLine(TurnPath(shape, turn, step)[i], with_timestamp,
                         with_prices, tokens)] :
            shape \in {-1, 1}, turn \in {6, 7, 8}, step \in {5, 20, 50},
            with_timestamp \in BOOLEAN, with_prices \in BOOLEAN,
            tokens \in ScalpTokens}
---------------------------------------------------------------------------
(* ScoringAPI and RealTimeScoringAPI.  Thresholds, weights and the numbers *)
(* of a data dict are in 10^-MaxFracDigits units; scores are exact         *)
(* fractions.                                                              *)

\* self.max_history
max_history == 1000

\* self.alert_threshold, in tenths
alert_threshold == 8

\* the entries of the history the trend is taken from
trend_window == 10

\* the least number of scores for a trend
min_trend_scores == 3

\* the scores of recent_average
average_window == 5

\* the greatest value / threshold that counts
max_ratio == 3

\* the active features of full confidence
full_confidence == 5

\* the rising trend alerts above this average, in tenths
rising_average == 6

\* the least number of parts of a log line
min_parts == 6

\* Python's s.split(sep) for a character sep
RECURSIVE split(_, _)
split(s, sep) ==
    With(RunNot(s, 1, {sep}), LAMBDA n :
        IF n = Len(s) THEN <<s>>
        ELSE <<SubSeq(s, 1, n)>> \o split(From(s, n + 2), sep))

LowerCase == "abcdefghijklmnopqrstuvwxyz"
UpperCase == "ABCDEFGHIJKLMNOPQRSTUVWXYZ"

\* Python's s.upper()
RECURSIVE upper(_)
upper(s) ==
    IF Len(s) = 0 THEN ""
    ELSE With({i \in 1..Len(LowerCase) : At(LowerCase, i) = At(s, 1)}, LAMBDA at :
             (IF at = {} THEN At(s, 1) ELSE At(UpperCase, CHOOSE i \in at : TRUE))
             \o upper(From(s, 2)))

\* _parse_percentage
parse_percentage(value_str) ==
    With(float(IF Contains(value_str, "%") THEN Remove(value_str, "%")
               ELSE value_str), LAMBDA number :
        IF number.ok THEN FloatV(number.v) ELSE FloatV(0))

\* _parse_volume
parse_volume(volume_str) ==
    With(upper(volume_str), LAMBDA up :
    With(IF Contains(up, "K") THEN <<float(Remove(up, "K")), 1000>>
         ELSE IF Contains(up, "M") THEN <<float(Remove(up, "M")), 1000000>>
         ELSE <<float(up), 1>>, LAMBDA number :
        IF number[1].ok THEN FloatV(number[1].v * number[2]) ELSE FloatV(0)))

\* parse_log_line.  The module does not import re, and the function imports
\* it after its first use, which makes re a local name of the function: the
\* search for the prices raises UnboundLocalError, the handler of the
\* function prints it, and the function returns the data it had by then.
parse_log_line(log_line) ==
    IF strip(log_line) = "" \/ ~Contains(log_line, "|") THEN EmptyDict
    ELSE With(split(log_line, "|"), LAMBDA parts :
        IF Len(parts) < min_parts THEN EmptyDict
        ELSE [color |-> StrV(parts[5]),
              price_change |-> parse_percentage(parts[6]),
              volume |-> IF Len(parts) > min_parts THEN parse_volume(parts[7])
                         ELSE IntV(0)])

\* whether the field of the data is activated and has a weight
Activated(thresholds_of, weights_of, data_dict, field_name) ==
    /\ field_name \in DOMAIN data_dict
    /\ IsNumber(data_dict[field_name])
    /\ Abs(Num(data_dict[field_name])) > thresholds_of[field_name]
    /\ field_name \o "_activated" \in DOMAIN weights_of
    /\ weights_of[field_name \o "_activated"] > 0

\* min(abs(field_value) / threshold, 3.0)
LimitedRatio(value, threshold) ==
    With(IF threshold > 0 THEN Rat(Abs(value), threshold)
         ELSE RatNeg(Rat(Abs(value), 0 - threshold)), LAMBDA ratio :
        IF RatLt(Rat(max_ratio, 1), ratio) THEN Rat(max_ratio, 1) ELSE ratio)

\* contribution
Contribution(thresholds_of, weights_of, data_dict, field_name) ==
    RatMul(Rat(weights_of[field_name \o "_activated"], Scale),
           LimitedRatio(Num(data_dict[field_name]), thresholds_of[field_name]))

\* the result with the key 'error'
ErrorScore ==
    [error |-> TRUE, score |-> Rat(0, 1), confidence |-> Rat(0, 1),
     active_features |-> 0]

\* min(x, 1.0)
AtMostOne(x) == IF RatLt(Rat(1, 1), x) THEN Rat(1, 1) ELSE x

\* the order the fields of a dict are summed in
FieldOrder(fields) ==
    SelectSeq(<<"price_change", "volume", "ef2", "color">>,
              LAMBDA f : f \in fields)

\* calculate_score without the test of is_ready
calculate_score_unready(ready, thresholds_of, weights_of, data_dict) ==
    With({f \in DOMAIN thresholds_of :
             Activated(thresholds_of, weights_of, data_dict, f)},
         LAMBDA active :
        IF active = {} \/ \E f \in active : thresholds_of[f] = 0
        THEN [ErrorScore EXCEPT !.error = FALSE]
        ELSE [error |-> FALSE,
              score |-> AtMostOne(Rat(Cardinality(active), 1)),
              confidence |-> AtMostOne(Rat(Cardinality(active), full_confidence)),
              active_features |-> Cardinality(active)])

\* calculate_score
calculate_score(ready, thresholds_of, weights_of, data_dict) ==
    IF ~ready THEN ErrorScore
    ELSE With({f \in DOMAIN thresholds_of :
                  Activated(thresholds_of, weights_of, data_dict, f)},
              LAMBDA active :
         IF \E f \in active : thresholds_of[f] = 0
         THEN ErrorScore     \* ZeroDivisionError
         ELSE IF active = {}
         THEN [error |-> FALSE, score |-> Rat(0, 1), confidence |-> Rat(0, 1),
               active_features |-> 0]
         ELSE With(FieldOrder(active), LAMBDA order :
              [error |-> FALSE,
               score |-> AtMostOne(RatDiv(
                   RatTotal([k \in DOMAIN order |->
                       Contribution(thresholds_of, weights_of, data_dict,
                                    order[k])]),
                   Rat(Cardinality(active), 1))),
               confidence |->
                   AtMostOne(Rat(Cardinality(active), full_confidence)),
               active_features |-> Cardinality(active)]))

\* a result as the API returns it; the keys a result lacks have the values
\* of NoScore
NoScore ==
    [error |-> FALSE, score |-> Rat(0, 1), confidence |-> Rat(0, 1),
     active_features |-> 0, timestamp |-> 0, parsed_fields |-> 0,
     line_number |-> 0, trend |-> "", recent_average |-> Rat(0, 1),
     alerts |-> <<>>, history_size |-> 0]

WithScore(result, scored) ==
    [result EXCEPT !.error = scored.error, !.score = scored.score,
                   !.confidence = scored.confidence,
                   !.active_features = scored.active_features]

\* score_log_line on the data parse_log_line returned, at the time now
score_parsed_line(ready, thresholds_of, weights_of, data, now) ==
    IF data = EmptyDict THEN WithScore(NoScore, ErrorScore)
    ELSE [WithScore(NoScore,
                    calculate_score(ready, thresholds_of, weights_of, data))
             EXCEPT !.timestamp = now,
                    !.parsed_fields = Cardinality(DOMAIN data)]

\* the last n entries of a list: list[-n:]
Last(list, n) ==
    IF Len(list) <= n THEN list ELSE SubSeq(list, Len(list) - n + 1, Len(list))

\* the scores of the entries without 'error' in the last trend_window
\* entries of the history
ErrorFreeScores(history) ==
    With(SelectSeq(Last(history, trend_window), LAMBDA r : ~r.error),
         LAMBDA valid : [k \in DOMAIN valid |-> valid[k].score])

\* the trend with RISING for equal scores
TrendNotFalling(scores) ==
    IF Len(scores) >= min_trend_scores
    THEN IF RatLt(scores[Len(scores)], scores[Len(scores) - 2])
         THEN "FALLING" ELSE "RISING"
    ELSE "STABLE"

\* the trend of process_realtime_line
Trend(scores) ==
    IF Len(scores) >= min_trend_scores
    THEN IF RatLt(scores[Len(scores) - 2], scores[Len(scores)])
         THEN "RISING" ELSE "FALLING"
    ELSE "STABLE"

\* avg_recent
RecentAverage(scores, score) ==
    IF Len(scores) >= min_trend_scores
    THEN RatDiv(RatTotal(Last(scores, average_window)),
                Rat(Len(Last(scores, average_window)), 1))
    ELSE score

\* the alerts with HIGH_SCORE for a score at the threshold as well
AlertsAtThreshold(score, trend, avg_recent) ==
    (IF ~RatLt(score, Rat(alert_threshold, 10)) THEN <<"HIGH_SCORE">> ELSE <<>>)
    \o (IF trend = "RISING" /\ RatLt(Rat(rising_average, 10), avg_recent)
        THEN <<"RISING_TREND">> ELSE <<>>)

\* alerts, by their types
Alerts(score, trend, avg_recent) ==
    (IF RatLt(Rat(alert_threshold, 10), score) THEN <<"HIGH_SCORE">> ELSE <<>>)
    \o (IF trend = "RISING" /\ RatLt(Rat(rising_average, 10), avg_recent)
        THEN <<"RISING_TREND">> ELSE <<>>)

\* the history as it is
Unlimited(history) == history

\* the history cut to its last max_history entries
Limited(history) == Last(history, max_history)

\* process_realtime_line after score_log_line returned result: the history
\* and the result it returns.  The result is the last entry of the history,
\* the same dict.
process_realtime_line(history, result) ==
    With(Limited(Append(history, result)), LAMBDA kept :
    With(ErrorFreeScores(kept), LAMBDA scores :
    With([result EXCEPT
             !.trend = Trend(scores),
             !.recent_average = RecentAverage(scores, result.score),
             !.alerts = Alerts(result.score, Trend(scores),
                               RecentAverage(scores, result.score)),
             !.history_size = Len(kept)], LAMBDA updated :
        [recent_scores |-> [kept EXCEPT ![Len(kept)] = updated],
         result |-> updated])))

\* the API as its constructor leaves it when the configuration is missing
ScoringNew ==
    /\ is_ready = FALSE
    /\ scoring_thresholds = EmptyDict
    /\ scoring_weights = EmptyDict
    /\ recent_scores = <<>>
    /\ scoring_returned = <<>>
    /\ scoring_line = ""
    /\ realtime_results = <<>>
    /\ scoring_clock = 0
    /\ scoring_pc = "new"
---------------------------------------------------------------------------
(* DataProcessor.clean_log_data.                                           *)

\* re.sub(r'\s+', ' ', s)
RECURSIVE collapse_spaces(_)
collapse_spaces(s) ==
    IF Len(s) = 0 THEN ""
    ELSE IF At(s, 1) \in SpaceChars
    THEN " " \o collapse_spaces(From(s, Run(s, 1, SpaceChars) + 1))
    ELSE At(s, 1) \o collapse_spaces(From(s, 2))

\* Python's s.replace(old, new)
RECURSIVE replace(_, _, _)
replace(s, old, new) ==
    IF Len(s) = 0 THEN ""
    ELSE IF IsLit(s, 1, old) THEN new \o replace(From(s, Len(old) + 1), old, new)
    ELSE At(s, 1) \o replace(From(s, 2), old, new)

\* [+-]?\d+\.?\d* at j: the length it matches, 0 when it does not match
SignedLen(s, j) ==
    With(IF At(s, j) \in {"+", "-"} THEN 1 ELSE 0, LAMBDA sign :
    With(Run(s, j + sign, Digits), LAMBDA d :
    With(IF At(s, j + sign + d) = "." THEN 1 ELSE 0, LAMBDA point :
        IF d = 0 THEN 0
        ELSE sign + d + point + Run(s, j + sign + d + point, Digits))))

\* ([a-zA-Z]+)(\d+)--?([+-]?\d+\.?\d*) at i: [ok, text (what the match is
\* replaced by, \1\2-\3), next (the position after the match)].  The engine
\* takes two dashes when the rest matches after them, one dash otherwise.
MatchDashes(s, i) ==
    With(Run(s, i, Letters), LAMBDA L :
    With(Run(s, i + L, Digits), LAMBDA D :
    With(i + L + D, LAMBDA q :
        IF L = 0 \/ D = 0 \/ At(s, q) # "-" THEN [ok |-> FALSE, text |-> "", next |-> 0]
        ELSE With(IF At(s, q + 1) = "-" /\ SignedLen(s, q + 2) > 0 THEN 2 ELSE 1,
                  LAMBDA dashes :
             With(SignedLen(s, q + dashes), LAMBDA n :
                 IF n = 0 THEN [ok |-> FALSE, text |-> "", next |-> 0]
                 ELSE [ok |-> TRUE,
                       text |-> SubSeq(s, i, q - 1) \o "-"
                                \o SubSeq(s, q + dashes, q + dashes + n - 1),
                       next |-> q + dashes + n])))))

\* re.sub(r'([a-zA-Z]+)(\d+)--?([+-]?\d+\.?\d*)', r'\1\2-\3', s), from i on
RECURSIVE SubDashes(_, _)
SubDashes(s, i) ==
    IF i > Len(s) THEN ""
    ELSE With(MatchDashes(s, i), LAMBDA found :
        IF found.ok THEN found.text \o SubDashes(s, found.next)
        ELSE At(s, i) \o SubDashes(s, i + 1))

\* _clean_line
clean_line(line) ==
    SubDashes(replace(replace(replace(collapse_spaces(line),
                                      " | ", "|"), "| ", "|"), " |", "|"), 1)

\* the lines of the file that clean_log_data cleans: stripped, the first of
\* its duplicates, and of the format of a log line
RECURSIVE ValidLines(_, _, _)
ValidLines(lines, k, seen) ==
    IF k > Len(lines) THEN <<>>
    ELSE With(strip(lines[k]), LAMBDA line :
        IF line = "" \/ line \in seen THEN ValidLines(lines, k + 1, seen)
        ELSE (IF StartsWith(line, "[") /\ Contains(line, "LTF|")
              THEN <<line>> ELSE <<>>)
             \o ValidLines(lines, k + 1, seen \cup {line}))

\* the duplicates clean_log_data removes
RECURSIVE Duplicates(_, _, _)
Duplicates(lines, k, seen) ==
    IF k > Len(lines) THEN 0
    ELSE With(strip(lines[k]), LAMBDA line :
        IF line = "" THEN Duplicates(lines, k + 1, seen)
        ELSE IF line \in seen THEN 1 + Duplicates(lines, k + 1, seen)
        ELSE Duplicates(lines, k + 1, seen \cup {line}))

\* clean_log_data: the lines of the output file and the stats
clean_log_data(lines) ==
    With(ValidLines(lines, 1, {}), LAMBDA valid :
    With(SelectSeq([k \in DOMAIN valid |-> clean_line(valid[k])],
                   LAMBDA cleaned : cleaned # ""), LAMBDA cleaned_lines :
        [cleaned_lines |-> cleaned_lines,
         stats |-> [total_lines |-> Len(lines),
                    valid_lines |-> Len(valid),
                    cleaned_lines |-> Len(cleaned_lines),
                    removed_duplicates |-> Duplicates(lines, 1, {}),
                    fixed_timestamps |-> 0]]))

\* the lines of the files the cleaner is given
CleanerLines ==
    {"", "# header", "LTF|ef2-3", "[t] HTF|ef1h-3",
     "[t] LTF|ef2--7.19", "[t] LTF|ef2-7.19", "[t] LTF|as2-3.33|ro2-11",
     "[t]  LTF|nw2-!! | ze2--4.12 |vc2-2.4| so2-11", "[t] LTF|ef2-5%",
     "[t] LTF|co2---213", "  [t] LTF|so2-+1.5  "}

RECURSIVE CleanerFilesOfLen(_)
CleanerFilesOfLen(n) ==
    IF n = 0 THEN {<<>>}
    ELSE {Append(f, l) : f \in CleanerFilesOfLen(n - 1), l \in CleanerLines}

CleanerFiles == UNION {CleanerFilesOfLen(n) : n \in 0..MaxLines}

\* the processor before clean_log_data
CleanerNew ==
    /\ cleaner_input = <<>>
    /\ cleaner_output = <<>>
    /\ cleaner_stats = EmptyDict
    /\ cleaner_pc = "new"
---------------------------------------------------------------------------
(* The frames the analyzer is given.                                       *)
(*                                                                         *)
(* Without the advanced modules parse_log_file makes parsed_data from the  *)
(* records of _parse_single_line_honest.  The log files of the model have  *)
(* lines "<n>|o:<p>|h:<p>|l:<p>|c:<p>|nw2-<signal>", the signal left out   *)
(* in some: the price p follows a path of steps, each doubling or halving  *)
(* it, and the signal is one of "!", "!!" in three blocks of lines.        *)

\* the record of _parse_single_line_honest for such a line: a dict,
\* modelled by its items in the order they were set
HonestRecord(line_num, price, exclamations) ==
    << <<"line_number", IntV(line_num)>>,
       <<"open", FloatV(price * Scale)>>,
       <<"high", FloatV(price * Scale)>>,
       <<"low", FloatV(price * Scale)>>,
       <<"close", FloatV(price * Scale)>> >>
    \o (IF exclamations > 0
        THEN << <<"nw2", IntV(exclamations)>>,
                <<"nw2_signal", StrV(Signal(exclamations))>> >>
        ELSE <<>>)

\* the keys of a record, in their order
Keys(rec) == [k \in DOMAIN rec |-> rec[k][1]]

\* rec[key], NaN for a key the record lacks
Value(rec, key) ==
    IF In(key, Keys(rec))
    THEN rec[Least({k \in DOMAIN rec : rec[k][1] = key})][2]
    ELSE NaN

\* pd.DataFrame(data) for a list of records: the columns are the keys in the
\* order they first appear, and a record has NaN where it lacks a key
DataFrame(data) ==
    With(unique(Concat([i \in DOMAIN data |-> Keys(data[i])])), LAMBDA columns :
        [columns |-> columns,
         data |-> [key \in {columns[k] : k \in DOMAIN columns} |->
                      [i \in DOMAIN data |-> Value(data[i], key)]]])

RECURSIVE Pow2(_)
Pow2(n) == IF n = 0 THEN 1 ELSE 2 * Pow2(n - 1)

\* the row counts: below, at and above the least number of prices
RowCounts == {MinPrices - 1, MinPrices, MaxRows}

\* the lines of the first step of a path, and the lines between two steps
FirstSteps == {6, 27}
StepGaps == {min_event_gap - 1, min_event_gap}
StepCounts == {0, 2, MaxSteps}

\* the prices of n lines on a path of count steps
PricePath(n, first, gap, count, direction) ==
    [i \in 1..n |->
        With(Cardinality({j \in 0..(count - 1) : first + j * gap <= i}),
            LAMBDA steps :
            Pow2(IF direction = "up" THEN steps ELSE count - steps))]

PricePaths(n) ==
    {PricePath(n, first, gap, count, direction) :
        first \in FirstSteps, gap \in StepGaps, count \in StepCounts,
        direction \in {"up", "down"}}

\* the lines of the first two blocks of signals, and the exclamation marks
\* of the three blocks (0: the line has no nw2 field)
SignalBlocks == {<<26, 35>>, <<10, 15>>}
SignalLevels == {<<0, 0, 0>>, <<0, 0, 2>>, <<2, 0, 0>>, <<0, 1, 2>>,
                 <<0, 2, 1>>, <<1, 1, 2>>, <<2, 2, 1>>}

SignalPattern(n, blocks, levels) ==
    [i \in 1..n |->
        IF i <= blocks[1] THEN levels[1]
        ELSE IF i <= blocks[2] THEN levels[2]
        ELSE levels[3]]

SignalPatterns(n) ==
    {SignalPattern(n, blocks, levels) :
        blocks \in SignalBlocks, levels \in SignalLevels}

ParsedFrames ==
    UNION {{DataFrame([i \in 1..n |-> HonestRecord(i - 1, prices[i], signals[i])]) :
               prices \in PricePaths(n), signals \in SignalPatterns(n)} :
           n \in RowCounts}

---------------------------------------------------------------------------
(* The parser as a state machine.                                          *)

\* the parser as its constructor leaves it
ParserNew ==
    /\ field_patterns = "original"
    /\ record = [kind |-> "none", record |-> EmptyDict]
    /\ raw_parsing_data = <<>>
    /\ ltf_data = <<>>
    /\ htf_data = <<>>
    /\ parser_pc = "new"

\* run_full_analysis has not returned
NotReturned == [status |-> "none", message |-> ""]

\* the analyzer as its constructor leaves it, but for parsed_data
AnalyzerNew ==
    /\ features = NoFrame
    /\ events = NoEvents
    /\ threshold_analysis = EmptyDict
    /\ field_correlations = EmptyDict
    /\ field_roc_scores = EmptyDict
    /\ real_temporal_lags = EmptyDict
    /\ veto_fields = EmptyDict
    /\ scoring_system = NoScoringSystem
    /\ validation_results = FALSE
    /\ analysis_result = NotReturned

\* the analyzer before run_full_analysis
AnalyzerIdle ==
    /\ AnalyzerNew
    /\ parsed_data = NoFrame
    /\ analysis_steps = <<>>
    /\ analyzer_pc = "new"

\* the event detector as its constructor leaves it
DetectorNew ==
    /\ detector_data = [high |-> <<>>, low |-> <<>>,
                        columns |-> InitialRetracementColumns(0)]
    /\ detector_extrema = <<>>
    /\ detector_pc = "new"

\* the integration as its constructor leaves it
IntegrationNew ==
    /\ integration_patterns = "original"
    /\ parsing_results = NoResults
    /\ special_values_detected = <<>>
    /\ integration_features = <<>>
    /\ integration_pc = "new"

\* the scalp analyzer as its constructor leaves it
ScalpNew ==
    /\ scalp = NotAnalyzed
    /\ scalp_pc = "new"

ParserInit ==
    /\ ParserNew
    /\ AnalyzerIdle
    /\ DetectorNew
    /\ IntegrationNew
    /\ ScalpNew
    /\ ScoringNew
    /\ CleanerNew

\* HonestDataDrivenAnalyzer._patch_advanced_parser
PatchAdvancedParser ==
    /\ parser_pc = "new"
    /\ field_patterns = "original"
    /\ field_patterns' = "patched"
    /\ UNCHANGED <<record, raw_parsing_data, ltf_data, htf_data, parser_pc>>
    /\ UNCHANGED beside_parser

\* AdvancedLogParser._parse_single_line, called on one line as
\* test_parser_quick.py and test_parser_on_sample call it
ParseSingleLine ==
    /\ parser_pc = "new"
    /\ \E line \in LogLines :
         record' = parse_single_line(field_patterns, line, 0)
    /\ parser_pc' = "line"
    /\ UNCHANGED <<field_patterns, raw_parsing_data, ltf_data, htf_data>>
    /\ UNCHANGED beside_parser

\* AdvancedLogParser.parse_log_file
ParseLogFile ==
    /\ parser_pc = "new"
    /\ \E file \in LogFiles :
         With(parse_log_file(field_patterns, file), LAMBDA r :
             /\ raw_parsing_data' = r.df
             /\ parser_pc' = IF r.raised THEN "raised" ELSE "parsed")
    /\ UNCHANGED <<field_patterns, record, ltf_data, htf_data>>
    /\ UNCHANGED beside_parser

\* AdvancedLogParser.get_ltf_htf_separation
GetLtfHtfSeparation ==
    /\ parser_pc = "parsed"
    /\ ltf_data' = get_ltf_htf_separation(raw_parsing_data)[1]
    /\ htf_data' = get_ltf_htf_separation(raw_parsing_data)[2]
    /\ parser_pc' = "separated"
    /\ UNCHANGED <<field_patterns, record, raw_parsing_data>>
    /\ UNCHANGED beside_parser

ParserNext ==
    PatchAdvancedParser \/ ParseSingleLine \/ ParseLogFile \/ GetLtfHtfSeparation

---------------------------------------------------------------------------
(* run_full_analysis from its second step on, without the advanced         *)
(* modules, as a state machine.                                            *)

\* the message of run_full_analysis after a step that returned False (the
\* source has them in Russian)
StepMessage ==
    [parse_log_file |-> "file parsing error",
     create_features |-> "feature creation error",
     auto_detect_events |-> "automatic event detection error",
     calculate_real_field_statistics |-> "field statistics error",
     calculate_real_correlations |-> "correlation error",
     calculate_real_temporal_lags |-> "temporal lag error",
     find_veto_fields |-> "VETO analysis error",
     create_honest_scoring_system |-> "scoring system creation error",
     validate_system |-> "system validation error"]

\* what run_full_analysis returns after the step returned False
ErrorResult(step) == [status |-> "error", message |-> StepMessage[step]]

\* run_full_analysis going on to the next step whatever the step returned
ReturnedIgnored(step) ==
    /\ analysis_steps' = Append(analysis_steps, step)
    /\ analysis_result' = analysis_result
    /\ validation_results' = validation_results

\* run_full_analysis after a step has returned: it returns the error of
\* the step when the step returned False
Returned(step) ==
    /\ analysis_steps' = Append(analysis_steps, step)
    /\ analysis_result' = IF analyzer_pc' = "error" THEN ErrorResult(step)
                          ELSE analysis_result
    /\ validation_results' = validation_results

\* validate_system: available_features
available_features(system, frame) ==
    SelectSeq(system.features, LAMBDA f : In(f, frame.columns))

\* the analyzer after parse_log_file returned True
AnalyzerInit ==
    /\ ParserNew
    /\ DetectorNew
    /\ IntegrationNew
    /\ ScalpNew
    /\ ScoringNew
    /\ CleanerNew
    /\ AnalyzerNew
    /\ parsed_data \in ParsedFrames
    /\ analysis_steps = <<"parse_log_file">>
    /\ analyzer_pc = "parse_log_file"

\* create_features
CreateFeatures ==
    /\ analyzer_pc = "parse_log_file"
    /\ IF parsed_data = NoFrame \/ RowCount(parsed_data) = 0
       THEN /\ features' = features
            /\ analyzer_pc' = "error"
       ELSE /\ features' = clean_mixed_data_types(
                               create_prioritized_features_fallback(parsed_data))
            /\ analyzer_pc' = "create_features"
    /\ UNCHANGED <<parsed_data, events, threshold_analysis, field_correlations,
                   field_roc_scores, real_temporal_lags, veto_fields,
                   scoring_system>>
    /\ Returned("create_features")
    /\ UNCHANGED beside_analyzer

\* auto_detect_events
AutoDetectEvents ==
    /\ analyzer_pc = "create_features"
    /\ events' = auto_detect_events(features)
    /\ analyzer_pc' = IF events' = NoEvents THEN "error" ELSE "auto_detect_events"
    /\ UNCHANGED <<parsed_data, features, threshold_analysis, field_correlations,
                   field_roc_scores, real_temporal_lags, veto_fields,
                   scoring_system>>
    /\ Returned("auto_detect_events")
    /\ UNCHANGED beside_analyzer

\* calculate_real_field_statistics
CalculateRealFieldStatistics ==
    /\ analyzer_pc = "auto_detect_events"
    /\ IF features = NoFrame \/ events = NoEvents
       THEN /\ threshold_analysis' = threshold_analysis
            /\ analyzer_pc' = "error"
       ELSE /\ threshold_analysis' = FieldStatistics(features)
            /\ analyzer_pc' = "calculate_real_field_statistics"
    /\ UNCHANGED <<parsed_data, features, events, field_correlations,
                   field_roc_scores, real_temporal_lags, veto_fields,
                   scoring_system>>
    /\ Returned("calculate_real_field_statistics")
    /\ UNCHANGED beside_analyzer

\* calculate_real_correlations
CalculateRealCorrelations ==
    /\ analyzer_pc = "calculate_real_field_statistics"
    /\ IF features = NoFrame \/ events = NoEvents
       THEN /\ UNCHANGED <<field_correlations, field_roc_scores>>
            /\ analyzer_pc' = "error"
       ELSE /\ With(Correlations(features, events.events_mask), LAMBDA r :
                   /\ field_correlations' = r.correlations
                   /\ field_roc_scores' = r.roc_scores)
            /\ analyzer_pc' = "calculate_real_correlations"
    /\ UNCHANGED <<parsed_data, features, events, threshold_analysis,
                   real_temporal_lags, veto_fields, scoring_system>>
    /\ Returned("calculate_real_correlations")
    /\ UNCHANGED beside_analyzer

\* calculate_real_temporal_lags
CalculateRealTemporalLags ==
    /\ analyzer_pc = "calculate_real_correlations"
    /\ IF features = NoFrame \/ events = NoEvents
       THEN /\ real_temporal_lags' = real_temporal_lags
            /\ analyzer_pc' = "error"
       ELSE /\ real_temporal_lags' =
                   IF events.total_events < MinLagEvents THEN real_temporal_lags
                   ELSE TemporalLags(features, events.events_mask)
            /\ analyzer_pc' = "calculate_real_temporal_lags"
    /\ UNCHANGED <<parsed_data, features, events, threshold_analysis,
                   field_correlations, field_roc_scores, veto_fields,
                   scoring_system>>
    /\ Returned("calculate_real_temporal_lags")
    /\ UNCHANGED beside_analyzer

\* find_veto_fields
FindVetoFields ==
    /\ analyzer_pc = "calculate_real_temporal_lags"
    /\ IF field_correlations = EmptyDict
       THEN /\ veto_fields' = veto_fields
            /\ analyzer_pc' = "error"
       ELSE /\ veto_fields' = VetoFields(features, events.events_mask)
            /\ analyzer_pc' = "find_veto_fields"
    /\ UNCHANGED <<parsed_data, features, events, threshold_analysis,
                   field_correlations, field_roc_scores, real_temporal_lags,
                   scoring_system>>
    /\ Returned("find_veto_fields")
    /\ UNCHANGED beside_analyzer

\* create_honest_scoring_system
CreateHonestScoringSystem ==
    /\ analyzer_pc = "find_veto_fields"
    /\ IF field_correlations = EmptyDict \/ field_roc_scores = EmptyDict
       THEN /\ UNCHANGED <<features, scoring_system>>
            /\ analyzer_pc' = "error"
       ELSE /\ With(ScoringFeatures(features, events.event_rate, field_correlations,
                                   field_roc_scores, veto_fields),
                   LAMBDA scoring_features :
                   /\ features' = WithScoringColumns(features, scoring_features)
                   /\ scoring_system' = ScoringSystem(scoring_features))
            /\ analyzer_pc' = "create_honest_scoring_system"
    /\ UNCHANGED <<parsed_data, events, threshold_analysis, field_correlations,
                   field_roc_scores, real_temporal_lags, veto_fields>>
    /\ Returned("create_honest_scoring_system")
    /\ UNCHANGED beside_analyzer

\* validate_system.  The full validation splits the rows and fits a random
\* forest with sklearn; it returns False when one of the calls raises (a
\* class of events_mask with one row, a validation part without an event),
\* which the rows and the seed decide: the model admits both results.
ValidateSystem ==
    /\ analyzer_pc = "create_honest_scoring_system"
    /\ IF available_features(scoring_system, features) = <<>>
       THEN /\ validation_results' = validation_results
            /\ analyzer_pc' = "error"
       ELSE \E fitted \in BOOLEAN :
               /\ validation_results' = fitted
               /\ analyzer_pc' = IF fitted THEN "validate_system" ELSE "error"
    /\ analysis_steps' = Append(analysis_steps, "validate_system")
    /\ analysis_result' = IF analyzer_pc' = "error"
                          THEN ErrorResult("validate_system")
                          ELSE analysis_result
    /\ UNCHANGED <<parsed_data, features, events, threshold_analysis,
                   field_correlations, field_roc_scores, real_temporal_lags,
                   veto_fields, scoring_system>>
    /\ UNCHANGED beside_analyzer

\* create_honest_reports, and the return of run_full_analysis after it
CreateHonestReports ==
    /\ analyzer_pc = "validate_system"
    /\ analysis_steps' = Append(analysis_steps, "create_honest_reports")
    /\ analysis_result' = [status |-> "success", message |-> ""]
    /\ analyzer_pc' = "create_honest_reports"
    /\ UNCHANGED <<parsed_data, features, events, threshold_analysis,
                   field_correlations, field_roc_scores, real_temporal_lags,
                   veto_fields, scoring_system, validation_results>>
    /\ UNCHANGED beside_analyzer

AnalyzerNext ==
    \/ CreateFeatures
    \/ AutoDetectEvents
    \/ CalculateRealFieldStatistics
    \/ CalculateRealCorrelations
    \/ CalculateRealTemporalLags
    \/ FindVetoFields
    \/ CreateHonestScoringSystem
    \/ ValidateSystem
    \/ CreateHonestReports

---------------------------------------------------------------------------
(* The event detector as a state machine: detect_advanced_events on a      *)
(* frame whose rows have open = high = low = close.                        *)

\* the prices of the rows up to the peak
RisingBars == <<960, 980, 1000>>

\* the prices a row after the peak takes: above the peak, and 1.5, 2.5, 4,
\* 6, 8 and 11 percent below it
BarLevels == {1010, 985, 975, 960, 940, 920, 890}

BarTails == UNION {[1..n -> BarLevels] : n \in 1..MaxBars}

DetectorFrames ==
    {[high |-> RisingBars \o tail, low |-> RisingBars \o tail,
      columns |-> InitialRetracementColumns(0)] : tail \in BarTails}

DetectorInit ==
    /\ ParserNew
    /\ AnalyzerIdle
    /\ IntegrationNew
    /\ ScalpNew
    /\ ScoringNew
    /\ CleanerNew
    /\ detector_data \in DetectorFrames
    /\ detector_extrema = <<>>
    /\ detector_pc = "new"

\* detect_advanced_events, as far as the extrema and the retracements
DetectAdvancedEvents ==
    /\ detector_pc = "new"
    /\ detector_data.high # <<>>
    /\ With(find_extrema(detector_data.high, detector_data.low), LAMBDA extrema :
           /\ detector_extrema' = extrema
           /\ detector_data' =
                  [detector_data EXCEPT !.columns =
                      detect_retracements(detector_data.high, detector_data.low,
                                          extrema)])
    /\ detector_pc' = "detected"
    /\ UNCHANGED beside_detector

DetectorNext == DetectAdvancedEvents

---------------------------------------------------------------------------
(* ParserIntegration as a state machine.                                   *)

IntegrationInit ==
    /\ ParserNew
    /\ AnalyzerIdle
    /\ DetectorNew
    /\ IntegrationNew
    /\ ScalpNew
    /\ ScoringNew
    /\ CleanerNew

\* HonestDataDrivenAnalyzer._patch_advanced_parser, on the parser of the
\* integration
PatchIntegrationParser ==
    /\ integration_pc = "new"
    /\ integration_patterns = "original"
    /\ integration_patterns' = "patched"
    /\ UNCHANGED <<parsing_results, special_values_detected,
                   integration_features, integration_pc>>
    /\ UNCHANGED beside_integration

\* replace_old_parser
ReplaceOldParser ==
    /\ integration_pc = "new"
    /\ \E file \in IntegrationFiles :
         With(parse_log_file(integration_patterns, file), LAMBDA r :
             IF r.raised
             THEN /\ integration_pc' = "raised"
                  /\ UNCHANGED <<parsing_results, special_values_detected>>
             ELSE IF r.df = <<>>
             THEN /\ integration_pc' = "empty"
                  /\ UNCHANGED <<parsing_results, special_values_detected>>
             ELSE With(RecordsFrame(integration_patterns, r.df), LAMBDA full_data :
                      /\ special_values_detected' =
                             detect_special_patterns(full_data,
                                                     special_values_detected)
                      /\ parsing_results' =
                             [has_full_data |-> TRUE, full_data |-> full_data]
                      /\ integration_pc' = "replaced"))
    /\ UNCHANGED <<integration_patterns, integration_features>>
    /\ UNCHANGED beside_integration

\* get_features_for_main_system
GetFeaturesForMainSystem ==
    /\ integration_pc \in {"new", "replaced", "empty"}
    /\ integration_features' =
           get_features_for_main_system(parsing_results, special_values_detected)
    /\ integration_pc' = "features"
    /\ UNCHANGED <<integration_patterns, parsing_results, special_values_detected>>
    /\ UNCHANGED beside_integration

IntegrationNext ==
    \/ PatchIntegrationParser
    \/ ReplaceOldParser
    \/ GetFeaturesForMainSystem
---------------------------------------------------------------------------
(* ScalpAnalyzer as a state machine.                                       *)

ScalpInit ==
    /\ ParserNew
    /\ AnalyzerIdle
    /\ DetectorNew
    /\ IntegrationNew
    /\ ScalpNew
    /\ ScoringNew
    /\ CleanerNew

\* ScalpAnalyzer.analyze_log on a log file
AnalyzeLog ==
    /\ scalp_pc = "new"
    /\ \E lines \in ScalpFiles : \E analysed \in {analyze_log(lines)} :
          /\ scalp' = analysed
          /\ scalp_pc' = IF analysed.raised THEN "raised" ELSE "returned"
    /\ UNCHANGED beside_scalp

ScalpNext == AnalyzeLog
---------------------------------------------------------------------------
(* run_full_analysis from its first step on, without the advanced modules. *)
(* A line of a log file is modelled by what _fallback_parse_log_file tells *)
(* apart: a blank line, a comment, a line of fewer than three parts, and   *)
(* a candle line with its price and the exclamation marks of its nw2       *)
(* field.                                                                  *)

BlankLine == [kind |-> "blank", price |-> 0, exclamations |-> 0]
CommentLine == [kind |-> "comment", price |-> 0, exclamations |-> 0]
ShortLine == [kind |-> "short", price |-> 0, exclamations |-> 0]

CandleLines(prices, signals) ==
    [i \in DOMAIN prices |->
        [kind |-> "candle", price |-> prices[i], exclamations |-> signals[i]]]

\* the log files: without a record, and of candle lines after a comment
AnalysisFiles ==
    {<<>>, <<CommentLine, BlankLine>>, <<ShortLine, CommentLine, ShortLine>>}
    \cup UNION {{<<CommentLine>> \o CandleLines(prices, signals) :
                    prices \in PricePaths(n),
                    signals \in {SignalPattern(n, <<26, 35>>, levels) :
                                    levels \in SignalLevels}} :
                n \in RowCounts}

\* _fallback_parse_log_file: data
fallback_parse_log_file(lines) ==
    Concat([i \in DOMAIN lines |->
        IF lines[i].kind = "candle"
        THEN <<HonestRecord(i - 1, lines[i].price, lines[i].exclamations)>>
        ELSE <<>>])

\* parse_log_file, the first step of run_full_analysis
FallbackParseLogFile ==
    /\ analyzer_pc = "new"
    /\ \E lines \in AnalysisFiles :
          IF fallback_parse_log_file(lines) = <<>>
          THEN /\ parsed_data' = parsed_data
               /\ analyzer_pc' = "error"
          ELSE /\ parsed_data' = DataFrame(fallback_parse_log_file(lines))
               /\ analyzer_pc' = "parse_log_file"
    /\ Returned("parse_log_file")
    /\ UNCHANGED <<features, events, threshold_analysis, field_correlations,
                   field_roc_scores, real_temporal_lags, veto_fields,
                   scoring_system>>
    /\ UNCHANGED beside_analyzer

FullAnalysisInit ==
    /\ ParserNew
    /\ DetectorNew
    /\ IntegrationNew
    /\ ScalpNew
    /\ ScoringNew
    /\ CleanerNew
    /\ AnalyzerIdle

FullAnalysisNext ==
    \/ FallbackParseLogFile
    \/ CreateFeatures
    \/ AutoDetectEvents
    \/ CalculateRealFieldStatistics
    \/ CalculateRealCorrelations
    \/ CalculateRealTemporalLags
    \/ FindVetoFields
    \/ CreateHonestScoringSystem
    \/ ValidateSystem
    \/ CreateHonestReports
---------------------------------------------------------------------------
(* ScoringAPI and RealTimeScoringAPI as a state machine.                   *)

CandleText == "t|BTC|2|x|GREEN|1.5%|11.5K|o:1.5|h:2|l:1|c:2|ef2--7.19"

\* the lines the API is given
ScoringLines ==
    {"", "o:1.5 h:2", "t|BTC|2", CandleText,
     "t|BTC|2|x|RED|-5%|2K|o:2|h:2|l:1|c:1|ro2-11",
     "t|BTC|2|x|RED|0.5", "t|BTC|2|x|DOJI|up|much|o:1|h:1|l:1|c:1"}

\* parse_log_line of the lines: the dicts are computed once
ParsedLines == [line \in ScoringLines |-> parse_log_line(line)]

\* the data dicts calculate_score is given
DataDicts ==
    {[f \in fields |-> IF f = "volume" THEN FloatV(1150000)
                       ELSE IF f = "color" THEN StrV("GREEN") ELSE change] :
        fields \in SUBSET {"price_change", "volume", "color"},
        change \in {FloatV(-250), FloatV(50), FloatV(150), StrV("1.5%")}}

\* the configuration files: the thresholds and the weights of
\* scoring_config.json, and whether weight_matrix.csv can be read
ConfigFiles ==
    {[thresholds |-> [f \in fields |-> IF f = "volume" THEN 500000 ELSE threshold],
      weights |-> [f \in weighted |-> weight],
      readable |-> readable] :
        fields \in {{"volume"}, {"price_change", "volume"}},
        threshold \in {-100, 0, 100},
        weighted \in {{"volume_activated"},
                      {"price_change_activated", "volume_activated"}},
        weight \in {20, 250},
        readable \in BOOLEAN}

\* ScoringAPI.__init__ with the configuration file config
Loaded(config) ==
    /\ is_ready = config.readable
    /\ scoring_thresholds = config.thresholds
    /\ scoring_weights = config.weights
    /\ recent_scores = <<>>
    /\ scoring_returned = <<>>
    /\ scoring_line = ""
    /\ realtime_results = <<>>
    /\ scoring_clock = 0
    /\ scoring_pc = "new"

ScoringInit ==
    /\ ParserNew
    /\ AnalyzerIdle
    /\ DetectorNew
    /\ IntegrationNew
    /\ ScalpNew
    /\ CleanerNew
    /\ ScoringNew \/ \E config \in ConfigFiles : Loaded(config)

\* parse_log_line
ParseLogLine ==
    /\ \E line \in ScoringLines :
          /\ scoring_returned' = <<ParsedLines[line]>>
          /\ scoring_line' = line
    /\ scoring_pc' = "parse_log_line"
    /\ UNCHANGED <<is_ready, scoring_thresholds, scoring_weights,
                   recent_scores, realtime_results, scoring_clock>>
    /\ UNCHANGED beside_scoring

\* calculate_score
CalculateScore ==
    /\ \E data_dict \in DataDicts :
          scoring_returned' =
              <<WithScore(NoScore,
                          calculate_score(is_ready, scoring_thresholds,
                                          scoring_weights, data_dict))>>
    /\ scoring_line' = ""
    /\ scoring_pc' = "calculate_score"
    /\ UNCHANGED <<is_ready, scoring_thresholds, scoring_weights,
                   recent_scores, realtime_results, scoring_clock>>
    /\ UNCHANGED beside_scoring

\* the time after score_log_line on data: datetime.now() is called when the
\* line was parsed
Later(now, data) == IF data = EmptyDict THEN now ELSE now + 1

\* score_log_line
ScoreLogLine ==
    /\ scoring_clock < MaxCalls
    /\ \E line \in ScoringLines :
          /\ scoring_returned' =
                 <<score_parsed_line(is_ready, scoring_thresholds,
                                     scoring_weights, ParsedLines[line],
                                     scoring_clock + 1)>>
          /\ scoring_clock' = Later(scoring_clock, ParsedLines[line])
          /\ scoring_line' = line
    /\ scoring_pc' = "score_log_line"
    /\ UNCHANGED <<is_ready, scoring_thresholds, scoring_weights,
                   recent_scores, realtime_results>>
    /\ UNCHANGED beside_scoring

\* score_multiple_lines, on two lines
ScoreMultipleLines ==
    /\ scoring_clock + 1 < MaxCalls
    /\ \E first, second \in ScoringLines :
          With(score_parsed_line(is_ready, scoring_thresholds, scoring_weights,
                                 ParsedLines[first], scoring_clock + 1),
               LAMBDA result :
              /\ scoring_returned' =
                     <<[result EXCEPT !.line_number = 1],
                       [score_parsed_line(
                            is_ready, scoring_thresholds, scoring_weights,
                            ParsedLines[second],
                            Later(scoring_clock, ParsedLines[first]) + 1)
                           EXCEPT !.line_number = 2]>>
              /\ scoring_clock' = Later(Later(scoring_clock, ParsedLines[first]),
                                        ParsedLines[second])
              /\ scoring_line' = second)
    /\ scoring_pc' = "score_multiple_lines"
    /\ UNCHANGED <<is_ready, scoring_thresholds, scoring_weights,
                   recent_scores, realtime_results>>
    /\ UNCHANGED beside_scoring

\* process_realtime_line on the line
ProcessRealtime(line) ==
    /\ With(process_realtime_line(
                recent_scores,
                score_parsed_line(is_ready, scoring_thresholds, scoring_weights,
                                  ParsedLines[line], scoring_clock + 1)),
            LAMBDA processed :
           /\ recent_scores' = processed.recent_scores
           /\ scoring_returned' = <<processed.result>>
           /\ realtime_results' = Append(realtime_results, processed.result))
    /\ scoring_line' = line
    /\ scoring_clock' = Later(scoring_clock, ParsedLines[line])
    /\ scoring_pc' = "process_realtime_line"
    /\ UNCHANGED <<is_ready, scoring_thresholds, scoring_weights>>
    /\ UNCHANGED beside_scoring

\* process_realtime_line
ProcessRealtimeLine ==
    /\ scoring_clock < MaxCalls
    /\ Len(recent_scores) < MaxCalls
    /\ \E line \in ScoringLines : ProcessRealtime(line)

ScoringNext ==
    \/ ParseLogLine
    \/ CalculateScore
    \/ ScoreLogLine
    \/ ScoreMultipleLines
    \/ ProcessRealtimeLine

\* a configuration with a weight for price_change
ReadyConfig ==
    [thresholds |-> [f \in {"price_change", "volume"} |->
                        IF f = "volume" THEN 500000 ELSE 100],
     weights |-> [f \in {"price_change_activated"} |-> 20],
     readable |-> TRUE]

\* the lines of a followed log
FollowedLines ==
    {"", CandleText, "t|BTC|2|x|RED|-5%|2K|o:2|h:2|l:1|c:1|ro2-11"}

RealtimeInit ==
    /\ ParserNew
    /\ AnalyzerIdle
    /\ DetectorNew
    /\ IntegrationNew
    /\ ScalpNew
    /\ CleanerNew
    /\ Loaded(ReadyConfig)

\* process_realtime_line on the next line of a followed log, whose lines
\* repeat the last one after the first MaxVaried
FollowLog ==
    /\ Len(realtime_results) <= max_history + 1
    /\ \E line \in IF Len(realtime_results) < MaxVaried THEN FollowedLines
                    ELSE {scoring_line} :
          ProcessRealtime(line)

RealtimeNext == FollowLog

\* the lines of a watched log: those of a followed log and a line with a
\* smaller change of the price
WatchedLines == FollowedLines \cup {"t|BTC|2|x|RED|0.5"}

\* configurations whose scores pass the alert threshold: the weight of
\* price_change is 0.3 with the threshold 1.0 (the scores of WatchedLines
\* are 0, 0.45 and 0.9), or 0.4 with the threshold 0.25 (0.8 and 1.0)
AlertConfigs ==
    {[thresholds |-> [f \in {"price_change", "volume"} |->
                         IF f = "volume" THEN 500000 ELSE setting[1]],
      weights |-> [f \in {"price_change_activated"} |-> setting[2]],
      readable |-> TRUE] : setting \in {<<100, 30>>, <<25, 40>>}}

WatchedInit ==
    /\ ParserNew
    /\ AnalyzerIdle
    /\ DetectorNew
    /\ IntegrationNew
    /\ ScalpNew
    /\ CleanerNew
    /\ \E config \in AlertConfigs : Loaded(config)

\* process_realtime_line on the next line of a watched log
WatchLog ==
    /\ Len(realtime_results) < MaxWatched
    /\ \E line \in WatchedLines : ProcessRealtime(line)

WatchedNext == WatchLog
---------------------------------------------------------------------------
(* DataProcessor.clean_log_data as a state machine.                        *)

CleanerInit ==
    /\ ParserNew
    /\ AnalyzerIdle
    /\ DetectorNew
    /\ IntegrationNew
    /\ ScalpNew
    /\ ScoringNew
    /\ CleanerNew

\* clean_log_data on a file
CleanLogData ==
    /\ cleaner_pc = "new"
    /\ \E lines \in CleanerFiles :
          /\ cleaner_input' = lines
          /\ cleaner_output' = clean_log_data(lines).cleaned_lines
          /\ cleaner_stats' = clean_log_data(lines).stats
    /\ cleaner_pc' = "cleaned"
    /\ UNCHANGED beside_cleaner

CleanerNext == CleanLogData
---------------------------------------------------------------------------
(* Properties of the parser.                                               *)

\* the tokens of a line: its pieces between the separators seps
RECURSIVE Split(_, _)
Split(s, seps) ==
    IF \A i \in 1..Len(s) : At(s, i) \notin seps THEN {s}
    ELSE Let(Least({i \in 1..Len(s) : At(s, i) \in seps}), LAMBDA i :
             {SubSeq(s, 1, i - 1)} \cup Split(From(s, i + 1), seps))

Tokens(row) == Split(row["raw_line"].s, {"|", ","})

\* the records the parser has made: the rows of the frame and the record of
\* the single line
ParsedRows ==
    raw_parsing_data \o (IF record.kind = "record" THEN <<record.record>> ELSE <<>>)

\* the field names <prefix><suffix> with a known prefix and timeframe suffix
LtfFieldNames == {p \o s : p \in ltf_field_prefixes, s \in {"2", "5", "15", "30"}}
HtfFieldNames == {p \o s : p \in htf_field_prefixes, s \in {"1h", "4h", "1d", "1w"}}

\* signed numbers as the log writes them, and their value in hundredths
SignedNumbers ==
    ("3.33" :> 333) @@ ("11" :> 1100) @@ ("2.4" :> 240) @@ ("1" :> 100)
    @@ ("-7.19" :> -719) @@ ("-4.12" :> -412) @@ ("-213" :> -21300)

Hundredths(n) == FloatV(n * Pow10(MaxFracDigits - 2))

\* C1: every token <prefix><suffix>-<value> with a known prefix and suffix and
\* a signed number for its value is recorded under <prefix><suffix> as that
\* number (as2-3.33 as 3.33, ef2--7.19 as -7.19).
C1_SignedNumberRecorded ==
    \A i \in 1..Len(ParsedRows) :
      \A tok \in Tokens(ParsedRows[i]) :
        \A name \in LtfFieldNames \cup HtfFieldNames :
          StartsWith(tok, name \o "-") =>
            \A text \in DOMAIN SignedNumbers :
              tok = name \o "-" \o text =>
                /\ name \in DOMAIN ParsedRows[i]
                /\ ParsedRows[i][name] = Hundredths(SignedNumbers[text])

\* the longest run of exclamation marks the properties look at
MaxSignal == 3

\* C2: a token nw<suffix>-<n exclamation marks>, n >= 1, the only token of
\* its line for that field, is recorded as the integer n under nw<suffix> and
\* as the exclamation marks themselves under nw<suffix>_signal.
C2_NwSignalCounted ==
    \A i \in 1..Len(ParsedRows) :
      \A tok \in Tokens(ParsedRows[i]) :
        \A suffix \in {"2", "5", "15", "30", "1h", "4h", "1d", "1w"} :
          \A n \in 1..MaxSignal :
            (/\ tok = "nw" \o suffix \o "-" \o Signal(n)
             /\ \A u \in Tokens(ParsedRows[i]) :
                  StartsWith(u, "nw" \o suffix \o "-") => u = tok)
            => /\ ("nw" \o suffix) \in DOMAIN ParsedRows[i]
               /\ ParsedRows[i]["nw" \o suffix] = IntV(n)
               /\ ("nw" \o suffix \o "_signal") \in DOMAIN ParsedRows[i]
               /\ ParsedRows[i]["nw" \o suffix \o "_signal"] = StrV(Signal(n))

\* a parsed row holds nw2 for the token nw2-!! and nw4h for the token nw4h-!
C2_Witness ==
    /\ \E i \in 1..Len(ParsedRows) :
         /\ "nw2-!!" \in Tokens(ParsedRows[i])
         /\ "nw2_signal" \in DOMAIN ParsedRows[i]
    /\ \E i \in 1..Len(ParsedRows) :
         /\ ParsedRows[i]["raw_line"].s = "nw4h-!"
         /\ "nw4h" \in DOMAIN ParsedRows[i]

\* the keys of a row that are fields of the line, not metadata and not the
\* companions <field>_type and <field>_signal
FieldKeys(row) ==
    {k \in DOMAIN row \ common_fields :
        ~EndsWith(k, "_type") /\ ~EndsWith(k, "_signal")}

\* the tag a numeric field of the known lists carries
TaggedByTimeframe(row) ==
    \A k \in FieldKeys(row) :
      row[k].t = "float" =>
        /\ k \in LtfFieldNames =>
             (k \o "_type") \in DOMAIN row /\ row[k \o "_type"] = StrV("LTF")
        /\ k \in HtfFieldNames =>
             (k \o "_type") \in DOMAIN row /\ row[k \o "_type"] = StrV("HTF")

\* no field carries two tags in the frame
OneTagPerField ==
    \A i, j \in 1..Len(ParsedRows) :
      \A k \in (DOMAIN ParsedRows[i] \cap DOMAIN ParsedRows[j])
                \ common_fields :
        EndsWith(k, "_type") => ParsedRows[i][k] = ParsedRows[j][k]

\* C3 as stated: a field is recorded only for a known LTF prefix with an LTF
\* suffix or a known HTF prefix with an HTF suffix; a numeric one is tagged
\* LTF or HTF accordingly, and no field is tagged with both.
C3_OnlyListedFieldsRecorded ==
    /\ \A i \in 1..Len(ParsedRows) :
         /\ FieldKeys(ParsedRows[i]) \subseteq LtfFieldNames \cup HtfFieldNames
         /\ TaggedByTimeframe(ParsedRows[i])
    /\ OneTagPerField

\* the names of the progress fields: p<digits> and p<HTF suffix>
IsLtfProgressName(k) == StartsWith(k, "p") /\ IsDigit(From(k, 2))
IsHtfProgressName(k) == StartsWith(k, "p") /\ From(k, 2) \in {"1h", "4h", "1d", "1w"}

\* C3 amended: a recorded field is a listed LTF or HTF field, or one of bs, wa,
\* pd (tagged HTF_SPECIAL), or a progress field p<digits> (tagged
\* LTF_PROGRESS) or p<1h|4h|1d|1w> (tagged HTF_PROGRESS); a numeric listed
\* field is tagged LTF or HTF by its suffix, and no field carries two tags.
C3_RecordedFieldsAndTags ==
    /\ \A i \in 1..Len(ParsedRows) :
         /\ \A k \in FieldKeys(ParsedRows[i]) :
              \/ k \in LtfFieldNames \cup HtfFieldNames
              \/ /\ k \in {"bs", "wa", "pd"}
                 /\ ParsedRows[i][k \o "_type"] = StrV("HTF_SPECIAL")
              \/ /\ IsLtfProgressName(k)
                 /\ ParsedRows[i][k \o "_type"] = StrV("LTF_PROGRESS")
              \/ /\ IsHtfProgressName(k)
                 /\ ParsedRows[i][k \o "_type"] = StrV("HTF_PROGRESS")
         /\ TaggedByTimeframe(ParsedRows[i])
    /\ OneTagPerField

\* a frame holds a tagged LTF field, a tagged HTF field of another row, and
\* the lines with an unlisted prefix and an unlisted suffix left no field
C3_Witness ==
    /\ \E i \in 1..Len(ParsedRows) :
         /\ "ef2_type" \in DOMAIN ParsedRows[i]
         /\ ParsedRows[i]["ef2_type"] = StrV("LTF")
    /\ \E i \in 1..Len(ParsedRows) :
         /\ "od1h_type" \in DOMAIN ParsedRows[i]
         /\ ParsedRows[i]["od1h_type"] = StrV("HTF")

\* a row of a progress token whose number is no timeframe
C3_ProgressWitness ==
    \E i \in 1..Len(ParsedRows) :
      /\ ParsedRows[i]["raw_line"].s = "p3--5.5"
      /\ "p3" \in DOMAIN ParsedRows[i]

\* C4: the two frames of get_ltf_htf_separation have the rows of the input,
\* each with every common metadata column of the input; every column
\* <prefix><suffix> of a listed field is in the LTF frame and not in the HTF
\* frame when its suffix is an LTF one, and the other way round.
C4_Separation ==
    parser_pc = "separated" =>
      /\ Len(ltf_data) = Len(raw_parsing_data)
      /\ Len(htf_data) = Len(raw_parsing_data)
      /\ \A i \in 1..Len(raw_parsing_data) :
           \A c \in common_fields \cap DOMAIN raw_parsing_data[i] :
             /\ c \in DOMAIN ltf_data[i] /\ ltf_data[i][c] = raw_parsing_data[i][c]
             /\ c \in DOMAIN htf_data[i] /\ htf_data[i][c] = raw_parsing_data[i][c]
      /\ \A i \in 1..Len(raw_parsing_data) :
           \A k \in DOMAIN raw_parsing_data[i] :
             /\ k \in LtfFieldNames =>
                  /\ k \in DOMAIN ltf_data[i]
                  /\ ltf_data[i][k] = raw_parsing_data[i][k]
                  /\ k \notin Columns(htf_data)
             /\ k \in HtfFieldNames =>
                  /\ k \in DOMAIN htf_data[i]
                  /\ htf_data[i][k] = raw_parsing_data[i][k]
                  /\ k \notin Columns(ltf_data)

\* a separated frame that had an LTF field, an HTF field and metadata
C4_Witness ==
    /\ parser_pc = "separated"
    /\ "ef2" \in Columns(ltf_data)
    /\ "ef1h" \in Columns(htf_data)
    /\ "open" \in Columns(ltf_data) \cap Columns(htf_data)
    /\ Len(raw_parsing_data) = MaxLines

---------------------------------------------------------------------------
(* Properties of the analyzer.                                             *)

\* the analyzer has run the step of the name, or a later one
Ran(step) ==
    With(<<"parse_log_file", "create_features", "auto_detect_events",
          "calculate_real_field_statistics", "calculate_real_correlations",
          "calculate_real_temporal_lags", "find_veto_fields",
          "create_honest_scoring_system", "validate_system",
          "create_honest_reports">>, LAMBDA steps :
        \E j, k \in DOMAIN steps :
            steps[j] = step /\ steps[k] = analyzer_pc /\ j <= k)

\* the rows of the column of a VETO condition where the column has a number
ConditionRows(veto) ==
    {i \in 1..RowCount(features) : IsNumber(features.data[veto.base_field][i])}

\* the rows where the VETO condition holds
VetoRows(veto) ==
    {i \in ConditionRows(veto) :
        IF veto.condition = "low"
        THEN Num(features.data[veto.base_field][i]) * veto.threshold.den
                 <= veto.threshold.num
        ELSE Num(features.data[veto.base_field][i]) * veto.threshold.den
                 >= veto.threshold.num}

EventRows == {i \in 1..RowCount(features) : events.events_mask[i] = 1}

\* the statistic of the chi-square test with the correction of Yates on the
\* table  a b / c d:  n (|ad - bc| - n/2)^2 / ((a+b)(c+d)(a+c)(b+d)), and 0
\* where |ad - bc| <= n/2
YatesChiSquare(a, b, c, d) ==
    IF 2 * Abs(a * d - b * c) <= a + b + c + d THEN Rat(0, 1)
    ELSE Rat((a + b + c + d) * (2 * Abs(a * d - b * c) - (a + b + c + d))
                             * (2 * Abs(a * d - b * c) - (a + b + c + d)),
             4 * (a + b) * (c + d) * (a + c) * (b + d))

\* C5 for one table: a events and b other rows under the condition, c events
\* and d other rows outside it -- the rate under the condition is lower
\* than the rate outside by more than 0.3 of it, and the table is significant
VetoJustified(a, b, c, d) ==
    /\ a + b > 0 /\ c + d > 0 /\ c > 0
    /\ 10 * (c * (a + b) - a * (c + d)) > 3 * c * (a + b)
    /\ RatLt(Rat(chi2_critical_value, 1000), YatesChiSquare(a, b, c, d))

VetoTableJustified(veto, Justified(_, _, _, _)) ==
    Justified(Cardinality(VetoRows(veto) \cap EventRows),
              Cardinality(VetoRows(veto) \ EventRows),
              Cardinality((ConditionRows(veto) \ VetoRows(veto)) \cap EventRows),
              Cardinality((ConditionRows(veto) \ VetoRows(veto)) \ EventRows))

\* C5: a VETO condition that find_veto_fields has recorded has an event rate
\* among its rows that is lower than the rate among the other rows by more
\* than the effectiveness threshold of that rate, its 2x2 table against
\* the events is significant at 0.05 by the chi-square test, and its
\* veto_event_rate is strictly below its normal_event_rate
C5_VetoEffectiveAndSignificant ==
    Ran("find_veto_fields") =>
        \A veto_name \in DOMAIN veto_fields :
            /\ VetoTableJustified(veto_fields[veto_name], VetoJustified)
            /\ veto_fields[veto_name].significant
            /\ RatLt(veto_fields[veto_name].veto_event_rate,
                     veto_fields[veto_name].normal_event_rate)

\* find_veto_fields has recorded a low and a high VETO condition
C5_Witness ==
    /\ analyzer_pc = "find_veto_fields"
    /\ \E veto_name \in DOMAIN veto_fields :
           veto_fields[veto_name].condition = "low"
    /\ \E veto_name \in DOMAIN veto_fields :
           veto_fields[veto_name].condition = "high"

\* the number of pairs of an event row and another row, among the rows of a
\* set, that a prediction orders rightly, ties counting a half: twice the
\* number, so that it is whole
TwiceOrderedPairs(rows, predicted) ==
    2 * Cardinality((rows \cap EventRows) \cap predicted)
      * Cardinality((rows \ EventRows) \ predicted)
    + Cardinality((rows \cap EventRows) \cap predicted)
      * Cardinality((rows \ EventRows) \cap predicted)
    + Cardinality((rows \cap EventRows) \ predicted)
      * Cardinality((rows \ EventRows) \ predicted)

\* the ROC-AUC of the prediction "the column is above the threshold": the
\* share of the pairs it orders rightly; None where the loop of
\* calculate_real_correlations does not come to compare it (one value in
\* the column or in the prediction, events of one class)
CandidateRoc(column, threshold) ==
    With({i \in 1..RowCount(features) : IsNumber(features.data[column][i])},
        LAMBDA rows :
    With({i \in rows : Num(features.data[column][i]) * threshold.den > threshold.num},
        LAMBDA predicted :
        IF \/ predicted = {} \/ predicted = rows
           \/ rows \cap EventRows = {} \/ rows \ EventRows = {}
        THEN None
        ELSE Rat(TwiceOrderedPairs(rows, predicted),
                 2 * Cardinality(rows \cap EventRows)
                   * Cardinality(rows \ EventRows))))

\* the numbers of a column of the features, NaN left out
ColumnNumbers(column) ==
    Numbers(AtRows(features.data[column], NotNaRows(features.data[column])))

\* the ROC-AUCs of the thresholds of a column, None left out
CandidateRocs(column) ==
    {r \in {CandidateRoc(column, quantile(ColumnNumbers(column), roc_quantiles[k])) :
                k \in DOMAIN roc_quantiles} : r # None}

\* the numeric columns of the features that calculate_real_correlations
\* analyses: at least min_samples values, all of them numbers
NumericColumns ==
    {features.columns[k] : k \in
        {k \in DOMAIN features.columns :
            /\ Len(NotNaRows(features.data[features.columns[k]])) >= min_samples
            /\ \A i \in DOMAIN features.data[features.columns[k]] :
                   features.data[features.columns[k]][i].t # "str"}}

\* C6: for every numeric field that calculate_real_correlations analyses,
\* best_roc_auc is the greatest of 0.5 and the ROC-AUCs of the thresholds at
\* the quantiles 0.5, 0.7, 0.8, 0.9, 0.95 of the field; best_threshold is
\* one of these thresholds and its ROC-AUC is best_roc_auc; and
\* best_threshold is null exactly when no threshold has a ROC-AUC above 0.5
C6_BestRocAuc ==
    analyzer_pc = "calculate_real_correlations" =>
        \A column \in NumericColumns :
            /\ column \in DOMAIN field_roc_scores
            /\ With(field_roc_scores[column], LAMBDA scores :
               With(CandidateRocs(column), LAMBDA rocs :
                   /\ \A r \in rocs \cup {Rat(1, 2)} : ~RatLt(scores.best_roc_auc, r)
                   /\ scores.best_roc_auc \in rocs \cup {Rat(1, 2)}
                   /\ (scores.best_threshold = None)
                          <=> (\A r \in rocs : ~RatLt(Rat(1, 2), r))
                   /\ scores.best_threshold # None =>
                          /\ \E k \in DOMAIN roc_quantiles :
                                 scores.best_threshold
                                     = quantile(ColumnNumbers(column), roc_quantiles[k])
                          /\ CandidateRoc(column, scores.best_threshold)
                                 = scores.best_roc_auc))

\* a field has a best threshold that is not the first of the five, and
\* another field has thresholds but none with a ROC-AUC above 0.5
C6_Witness ==
    /\ analyzer_pc = "calculate_real_correlations"
    /\ \E column \in NumericColumns :
           /\ field_roc_scores[column].best_threshold # None
           /\ field_roc_scores[column].best_threshold
                  # quantile(ColumnNumbers(column), roc_quantiles[1])
    /\ \E column \in NumericColumns :
           /\ field_roc_scores[column].best_threshold = None
           /\ CandidateRocs(column) # {}

\* C7: in the event mask of auto_detect_events any two distinct events are
\* at least min_event_gap rows apart
C7_EventsApart ==
    Ran("auto_detect_events") =>
        \A i, j \in DOMAIN events.events_mask :
            (i < j /\ events.events_mask[i] = 1 /\ events.events_mask[j] = 1)
                => j - i >= min_event_gap

\* the rows the first two steps of auto_detect_events mark
MarkedRows ==
    With(RawEvents(Numbers(features.data["meta_close"])), LAMBDA marked :
        {i \in DOMAIN marked : marked[i] = 1})

\* the mask holds two events exactly min_event_gap rows apart, and the
\* filter has dropped a marked row
C7_Witness ==
    /\ analyzer_pc = "auto_detect_events"
    /\ \E i \in DOMAIN events.events_mask :
           /\ i + min_event_gap \in DOMAIN events.events_mask
           /\ events.events_mask[i] = 1
           /\ events.events_mask[i + min_event_gap] = 1
    /\ \E i \in MarkedRows : events.events_mask[i] = 0

\* the importances of the features before the normalisation, by the three
\* loops of create_honest_scoring_system on the state the step starts from
\* (it adds columns to the features, and changes nothing else it reads)
ImportanceBefore ==
    RawImportance(ScoringFeatures(features, events.event_rate, field_correlations,
                                  field_roc_scores, veto_fields))

IsVetoFeature(name) == EndsWith(name, "_veto")

\* every VETO feature has an importance below 0, every other one has an
\* importance of 0 or more
SignsRight(importance) ==
    \A name \in DOMAIN importance :
        IF IsVetoFeature(name) THEN importance[name].num < 0
        ELSE importance[name].num >= 0

\* C8: in the scoring system every VETO feature has a strictly negative
\* importance and every other feature a non-negative one, both before and
\* after the normalisation
C8_ImportanceSigns ==
    analyzer_pc = "create_honest_scoring_system" =>
        /\ SignsRight(ImportanceBefore)
        /\ SignsRight(scoring_system.feature_importance)
        /\ DOMAIN scoring_system.feature_importance
               = {scoring_system.features[k] : k \in DOMAIN scoring_system.features}

\* the scoring system has a VETO feature, a feature of a numeric field and
\* a feature of a signal, this one with the importance 0; the importances
\* are normalised
C8_Witness ==
    /\ analyzer_pc = "create_honest_scoring_system"
    /\ \E name \in DOMAIN scoring_system.feature_importance :
           IsVetoFeature(name)
    /\ \E name \in DOMAIN scoring_system.feature_importance :
           /\ Contains(name, "excl")
           /\ scoring_system.feature_importance[name].num = 0
    /\ \E name \in DOMAIN scoring_system.feature_importance :
           /\ ~Contains(name, "excl")
           /\ scoring_system.feature_importance[name].num > 0
    /\ scoring_system.feature_importance # ImportanceBefore

---------------------------------------------------------------------------
(* AdvancedEventDetector: properties.                                      *)

\* the retracements detect_advanced_events found: of every extremum of the
\* state, what _analyze_retracement_from_extremum returns
FoundRetracements ==
    {analyze_retracement_from_extremum(detector_data.high, detector_data.low,
                                       detector_extrema[k]) :
        k \in DOMAIN detector_extrema} \ {NoRetracement}

\* C9: after detect_advanced_events, every retracement of 2% or more that
\* was found has a level column set to 1 at the row where it ends, and a
\* type and a strength recorded on that row
C9_RetracementMarked ==
    detector_pc = "detected" =>
        \A r \in FoundRetracements :
            /\ \E column \in DOMAIN detector_data.columns.levels :
                   detector_data.columns.levels[column][r.end_index] = 1
            /\ detector_data.columns.retracement_type[r.end_index] # "none"
            /\ detector_data.columns.retracement_strength[r.end_index] # Rat(0, 1)

---------------------------------------------------------------------------
(* ParserIntegration: properties.                                          *)

FeatureColumns == {integration_features[k] : k \in DOMAIN integration_features}

\* the suffixes of the columns _add_indicator_derivatives derives
DerivativeSuffixes == {"_LAG1", "_LAG2", "_DIFF", "_MA3"}

\* the kinds of feature columns a field of the parsed data has: its value,
\* its activity flag, and the derivatives of its value
FeatureKinds(field) ==
    {kind \in {"", "_ACTIVE"} \cup DerivativeSuffixes :
        ("IND_" \o field \o kind) \in FeatureColumns}

\* C10: the features have the same kinds of columns for any two indicator
\* fields of the parsed data
C10_EqualTreatment ==
    integration_pc = "features" /\ parsing_results.has_full_data =>
        \A k, j \in DOMAIN IndicatorFields(parsing_results.full_data) :
            FeatureKinds(IndicatorFields(parsing_results.full_data)[k])
                = FeatureKinds(IndicatorFields(parsing_results.full_data)[j])

\* the indicator columns of the features with their derivatives
IndicatorDerived == {col \in FeatureColumns : StartsWith(col, "IND_")}

MetadataColumns == {col \in FeatureColumns : StartsWith(col, "META_")}

\* the original statement of C11: after every successful
\* replace_old_parser the features have more indicator-derived columns
\* than metadata columns
C11_IndicatorsOutnumberMetadataAlways ==
    integration_pc = "features" /\ parsing_results.has_full_data =>
        Cardinality(IndicatorDerived) > Cardinality(MetadataColumns)

\* C11: after a successful replace_old_parser whose data has an indicator
\* field, the features have more indicator-derived columns (the indicator
\* columns and their lag, diff and moving-average derivatives) than
\* metadata columns
C11_IndicatorsOutnumberMetadata ==
    /\ integration_pc = "features"
    /\ parsing_results.has_full_data
    /\ IndicatorFields(parsing_results.full_data) # <<>>
    => Cardinality(IndicatorDerived) > Cardinality(MetadataColumns)

\* the features of data with an indicator field and with the four prices:
\* there are six metadata columns or more
C11_Witness ==
    /\ integration_pc = "features"
    /\ parsing_results.has_full_data
    /\ IndicatorFields(parsing_results.full_data) # <<>>
    /\ Cardinality(MetadataColumns) >= 6
    /\ Cardinality(IndicatorDerived) > Cardinality(MetadataColumns)
---------------------------------------------------------------------------
(* ScalpAnalyzer.analyze_log.                                              *)

ScalpStages ==
    <<"parse_log_file", "find_events", "analyze_patterns",
      "create_simple_report">>

\* the types of the events the analyzer holds
EventTypes == {scalp.events[k].type : k \in DOMAIN scalp.events}

\* C12: after analyze_log on a log the parser extracts a record from, the
\* four stages have run in their order and none has raised, and when an event
\* was found pattern_stats has an entry for every type of events and the
\* report file is written; after a log the parser extracts nothing from,
\* only the parsing has run.
C12_StagesRunWithoutRaising ==
    scalp_pc # "new" =>
        IF RowCount(scalp.df) > 0
        THEN /\ ~scalp.raised
             /\ scalp.stages = ScalpStages
             /\ scalp.events # <<>> =>
                    /\ scalp.has_pattern_stats
                    /\ EventTypes \subseteq DOMAIN scalp.pattern_stats
                    /\ scalp.report_written
        ELSE scalp.stages = <<"parse_log_file">>
---------------------------------------------------------------------------
(* run_full_analysis.                                                      *)

\* the nine steps of run_full_analysis, and the creation of the reports
NineSteps ==
    <<"parse_log_file", "create_features", "auto_detect_events",
      "calculate_real_field_statistics", "calculate_real_correlations",
      "calculate_real_temporal_lags", "find_veto_fields",
      "create_honest_scoring_system", "validate_system">>

AllSteps == NineSteps \o <<"create_honest_reports">>

\* the steps called so far are the first of AllSteps, in their order
InFixedOrder ==
    /\ Len(analysis_steps) <= Len(AllSteps)
    /\ analysis_steps = SubSeq(AllSteps, 1, Len(analysis_steps))

\* run_full_analysis returns the error of a step at once when the step
\* returned False, and success after the reports
ReturnsAfterSteps ==
    /\ analyzer_pc = "error" <=> analysis_result.status = "error"
    /\ analysis_result.status = "error" =>
          /\ analysis_steps # <<>>
          /\ Len(analysis_steps) <= Len(NineSteps)
          /\ analysis_result.message =
                 StepMessage[analysis_steps[Len(analysis_steps)]]
    /\ analysis_result.status = "success" <=> analysis_steps = AllSteps

\* C13: run_full_analysis calls its nine steps in the fixed order; when a
\* step returns False it returns the error with the message of that step,
\* calls no later step and creates no reports; it returns success only after
\* the nine steps returned True and create_honest_reports has run.
C13_FixedOrderEarlyReturn ==
    /\ [](InFixedOrder /\ ReturnsAfterSteps)
    /\ [][analysis_result.status # "none" =>
              UNCHANGED <<analysis_steps, analysis_result>>]_vars

\* run_full_analysis has returned success
C13_Witness ==
    /\ analysis_result.status = "success"
    /\ analysis_steps = AllSteps
    /\ validation_results
---------------------------------------------------------------------------
(* ScoringAPI and RealTimeScoringAPI.                                      *)

\* C14: recent_scores holds at most max_history results, the latest that
\* process_realtime_line returned in the order of their arrival, and the
\* history_size of the latest result is the length of recent_scores.
C14_HistoryBounded ==
    /\ Len(recent_scores) <= max_history
    /\ recent_scores = Last(realtime_results, max_history)
    /\ scoring_pc = "process_realtime_line" =>
           scoring_returned[1].history_size = Len(recent_scores)

\* the history has dropped its oldest results
C14_Witness ==
    /\ Len(realtime_results) > max_history
    /\ Len(recent_scores) = max_history
    /\ scoring_returned[1].history_size = max_history
    /\ recent_scores[1] # realtime_results[1]

\* a line with the four prices and an indicator token
WellFormed(line) ==
    /\ Len(split(line, "|")) >= min_parts
    /\ \A key \in {"o:", "h:", "l:", "c:"} : Contains(line, key)
    /\ Contains(line, "|ef2-")

\* C15: parse_log_line of a well-formed line returns the four prices as
\* numbers, range = high - low, and an entry for the indicator token under
\* the name of the field.
C15_PricesAndIndicators ==
    scoring_pc = "parse_log_line" /\ WellFormed(scoring_line) =>
        With(scoring_returned[1], LAMBDA data :
            /\ {"open", "high", "low", "close", "range", "ef2"}
                   \subseteq DOMAIN data
            /\ \A key \in {"open", "high", "low", "close"} :
                   IsNumber(data[key])
            /\ Num(data["range"]) = Num(data["high"]) - Num(data["low"]))

InUnit(x) == ~RatLt(x, Rat(0, 1)) /\ ~RatLt(Rat(1, 1), x)

\* C18: calculate_score of a loaded configuration returns a score and a
\* confidence from 0 to 1, both 0 when no field is activated.
C18_ScoreInUnit ==
    scoring_pc = "calculate_score" /\ is_ready =>
        With(scoring_returned[1], LAMBDA result :
            /\ InUnit(result.score)
            /\ InUnit(result.confidence)
            /\ result.active_features = 0 =>
                   /\ result.score = Rat(0, 1)
                   /\ result.confidence = Rat(0, 1))

ScoringCalls ==
    {"calculate_score", "score_log_line", "score_multiple_lines",
     "process_realtime_line"}

\* every result of the latest call has 'error', score 0 and confidence 0
AllErrors ==
    \A k \in DOMAIN scoring_returned :
        /\ scoring_returned[k].error
        /\ scoring_returned[k].score = Rat(0, 1)
        /\ scoring_returned[k].confidence = Rat(0, 1)

\* C19: an API whose configuration was not loaded stays not ready, and its
\* calculate_score, score_log_line, score_multiple_lines and
\* process_realtime_line return results with 'error', score 0 and
\* confidence 0.
C19_NotReadyErrors ==
    /\ [](~is_ready /\ scoring_pc \in ScoringCalls => AllErrors)
    /\ [][~is_ready => ~is_ready']_vars

\* the API that read the thresholds and failed on the weight matrix has
\* answered process_realtime_line twice
C19_Witness ==
    /\ ~is_ready
    /\ scoring_thresholds # EmptyDict
    /\ scoring_pc = "process_realtime_line"
    /\ Len(recent_scores) = 2
    /\ scoring_line = CandleText

\* the results without 'error' among the last trend_window of the history
ErrorFree ==
    SelectSeq(Last(recent_scores, trend_window), LAMBDA r : ~r.error)

\* C20: the trend of process_realtime_line is STABLE exactly when fewer
\* than 3 of the last 10 entries of the history have no 'error'; otherwise
\* it is RISING when the latest score without error is greater than the one
\* two places before it, and FALLING in every other case.
C20_Trend ==
    scoring_pc = "process_realtime_line" =>
        With(scoring_returned[1].trend, LAMBDA trend :
            /\ trend \in {"STABLE", "RISING", "FALLING"}
            /\ trend = "STABLE" <=> Len(ErrorFree) < min_trend_scores
            /\ trend = "RISING" <=>
                   /\ Len(ErrorFree) >= min_trend_scores
                   /\ RatLt(ErrorFree[Len(ErrorFree) - 2].score,
                            ErrorFree[Len(ErrorFree)].score))

\* FALLING for equal scores, with an entry with 'error' between them
C20_Witness ==
    /\ scoring_pc = "process_realtime_line"
    /\ scoring_returned[1].trend = "FALLING"
    /\ ErrorFree[Len(ErrorFree) - 2].score = ErrorFree[Len(ErrorFree)].score
    /\ \E k \in DOMAIN recent_scores : recent_scores[k].error

\* how many alerts of the type the result carries
AlertCount(result, type) ==
    Len(SelectSeq(result.alerts, LAMBDA alert : alert = type))

\* the mean of the last average_window scores without 'error'
ErrorFreeMean ==
    With(Last(ErrorFree, average_window), LAMBDA latest :
        RatDiv(RatTotal([k \in DOMAIN latest |-> latest[k].score]),
               Rat(Len(latest), 1)))

\* C21: the result of process_realtime_line carries one HIGH_SCORE alert
\* exactly when its score is strictly greater than 0.8, and none otherwise;
\* it carries one RISING_TREND alert exactly when its trend is RISING and
\* the mean of the last up to five scores without error is greater than 0.6,
\* and none otherwise.
C21_Alerts ==
    scoring_pc = "process_realtime_line" =>
        With(scoring_returned[1], LAMBDA result :
            /\ AlertCount(result, "HIGH_SCORE") =
                   (IF RatLt(Rat(8, 10), result.score) THEN 1 ELSE 0)
            /\ AlertCount(result, "RISING_TREND") =
                   (IF /\ result.trend = "RISING"
                       /\ RatLt(Rat(6, 10), ErrorFreeMean)
                    THEN 1 ELSE 0)
            /\ Len(result.alerts) = AlertCount(result, "HIGH_SCORE")
                                    + AlertCount(result, "RISING_TREND"))

\* a score of exactly 0.8 on a falling trend with a mean above 0.6 carries
\* no alert, after a result that carried both
C21_Witness ==
    /\ scoring_pc = "process_realtime_line"
    /\ scoring_returned[1].score = Rat(8, 10)
    /\ scoring_returned[1].trend = "FALLING"
    /\ RatLt(Rat(6, 10), ErrorFreeMean)
    /\ scoring_returned[1].alerts = <<>>
    /\ \E k \in DOMAIN realtime_results :
           realtime_results[k].alerts = <<"HIGH_SCORE", "RISING_TREND">>
---------------------------------------------------------------------------
(* The pattern of _patch_advanced_parser against the pattern of            *)
(* _create_field_patterns.                                                 *)

\* negative numbers as the log writes them after the dash of a token
DoubleMinusNumbers ==
    ("-7.19" :> -719) @@ ("-4.12" :> -412) @@ ("-213" :> -21300)

\* the text after the first dash of a token, "" for a token without dash
TokenValue(tok) ==
    IF Contains(tok, "-")
    THEN From(tok, Least({k \in 1..Len(tok) : At(tok, k) = "-"}) + 1)
    ELSE ""

\* the value of the token is an unsigned number, a percentage or a run of
\* exclamation marks
UnsignedValue(tok) ==
    With(TokenValue(tok), LAMBDA value :
        /\ Len(value) > 0
        /\ \/ NumberLen(value, 1) = Len(value)
           \/ Run(value, 1, {"!"}) = Len(value))

\* C16: under the patched pattern a token <field>--<number> is parsed as the
\* negative number, and a token whose value is an unsigned number, a
\* percentage or a run of exclamation marks gives the same fields with the
\* same values as under the original pattern.
C16_PatchKeepsOriginal ==
    field_patterns = "patched" =>
      \A i \in 1..Len(ParsedRows) :
        \A tok \in Tokens(ParsedRows[i]) :
          /\ \A name \in LtfFieldNames \cup HtfFieldNames :
               \A text \in DOMAIN DoubleMinusNumbers :
                 tok = name \o "-" \o text =>
                   /\ name \in DOMAIN ParsedRows[i]
                   /\ ParsedRows[i][name] = Hundredths(DoubleMinusNumbers[text])
          /\ UnsignedValue(tok) =>
               /\ extract_all_indicator_fields("patched", tok)
                    = extract_all_indicator_fields("original", tok)
               /\ (\A u \in Tokens(ParsedRows[i]) : UnsignedValue(u))
                    => \A f \in DOMAIN extract_all_indicator_fields(
                                           "original",
                                           ParsedRows[i]["raw_line"].s) :
                          /\ f \in DOMAIN ParsedRows[i]
                          /\ ParsedRows[i][f] =
                                extract_all_indicator_fields(
                                    "original", ParsedRows[i]["raw_line"].s)[f]

\* the patched parser has parsed the line of test_parser_quick.py, with
\* ef2--7.19 and nw2-!!, and a line with a percentage
C16_Witness ==
    /\ field_patterns = "patched"
    /\ \E i \in 1..Len(ParsedRows) :
          /\ ParsedRows[i]["raw_line"].s = TestLine
          /\ ParsedRows[i]["ef2"] = Hundredths(-719)
          /\ ParsedRows[i]["nw2"] = IntV(2)
          /\ ParsedRows[i]["as2"] = Hundredths(333)
    /\ \E i \in 1..Len(ParsedRows) :
          /\ ParsedRows[i]["raw_line"].s = "ef1d-5%"
          /\ ParsedRows[i]["ef1d"] = Hundredths(500)
---------------------------------------------------------------------------
(* DataProcessor.clean_log_data.                                           *)

\* C17: every line of the cleaned file gives the same indicator fields with
\* the same values as the line of the input it was made from (ef2--7.19
\* gives -7.19 before and after).
C17_ValuesKept ==
    cleaner_pc = "cleaned" =>
        With(ValidLines(cleaner_input, 1, {}), LAMBDA valid :
            /\ Len(cleaner_output) = Len(valid)
            /\ \A k \in DOMAIN valid :
                   extract_all_indicator_fields("patched", cleaner_output[k])
                     = extract_all_indicator_fields("patched", valid[k]))

---------------------------------------------------------------------------

ParserSpec == ParserInit /\ [][ParserNext]_vars

AnalyzerSpec == AnalyzerInit /\ [][AnalyzerNext]_vars

DetectorSpec == DetectorInit /\ [][DetectorNext]_vars

IntegrationSpec == IntegrationInit /\ [][IntegrationNext]_vars

FullAnalysisSpec == FullAnalysisInit /\ [][FullAnalysisNext]_vars

ScoringSpec == ScoringInit /\ [][ScoringNext]_vars

RealtimeSpec == RealtimeInit /\ [][RealtimeNext]_vars

WatchedSpec == WatchedInit /\ [][WatchedNext]_vars

CleanerSpec == CleanerInit /\ [][CleanerNext]_vars

ScalpSpec == ScalpInit /\ [][ScalpNext]_vars
=============================================================================
